---- MODULE Spec2Model ----
(***************************************************************************)
(* The DVR L3 scheduler of neutron/db/l3_dvrscheduler_db.py as a state     *)
(* machine.  The persisted state is the two binding tables                 *)
(* (csnat_l3_agent_bindings and the generic router/agent bindings) and the *)
(* per-host bindings of the DVR interface ports; the routers, agents and   *)
(* ports are the inventory the scheduler reads.  Each                      *)
(* request runs in a process of its own and takes one step per database    *)
(* transaction, so that concurrent requests interleave between             *)
(* transactions as they do on the shared store.                            *)
(***************************************************************************)
EXTENDS Naturals, FiniteSets, Sequences, TLC

VARIABLES
    routers,     \* the router rows (get_router / sync_router dictionaries)
    agents,      \* the L3 agent rows
    ports,       \* the port rows of the core plugin
    dvr_bindings, \* the per-host bindings of the DVR interface ports (ml2)
    csnat,       \* rows of CentralizedSnatL3AgentBinding
    l3bindings,  \* rows of RouterL3AgentBinding
    proc         \* one record per request thread: the call it runs and where it is

vars == <<routers, agents, ports, dvr_bindings, csnat, l3bindings, proc>>

\* Number of request threads that may run concurrently.
NumProcs == 2

Procs == 1..NumProcs

(***************************************************************************)
(* Values                                                                  *)
(***************************************************************************)
\* Python's None, for identifiers and return values.
NoneVal == "None"

\* n_const.L3_AGENT_MODE and the three agent modes.
L3_AGENT_MODE == "agent_mode"

L3_AGENT_MODE_LEGACY == "legacy"

L3_AGENT_MODE_DVR == "dvr"

L3_AGENT_MODE_DVR_SNAT == "dvr_snat"

\* n_const.DEVICE_OWNER_DVR_INTERFACE
DEVICE_OWNER_DVR_INTERFACE == "network:router_interface_distributed"

\* A device owner of a VM port.
DEVICE_OWNER_COMPUTE == "compute:nova"

\* A dictionary without keys: what `None or {}` evaluates to.
EmptyDict == [k \in {} |-> NoneVal]

\* dict.get(key, default)
Get(d, key, default) == IF key \in DOMAIN d THEN d[key] ELSE default

\* Truth value of an identifier-valued expression: None and '' are false.
Truthy(v) == v \notin {NoneVal, ""}

\* Every ordering of a finite set, as the lists a query may return it in.
Orderings(S) ==
    {s \in [1..Cardinality(S) -> S] :
        \A i, j \in 1..Cardinality(S) : i # j => s[i] # s[j]}

\* The elements of a list.
Range(s) == {s[i] : i \in 1..Len(s)}

(***************************************************************************)
(* Rows                                                                    *)
(***************************************************************************)
\* A row of either binding table: the composite primary key of the model
\* class (router_id, l3_agent_id).
BindingRow(router_id, l3_agent_id) ==
    [router_id |-> router_id, l3_agent_id |-> l3_agent_id]

\* "No binding": what query.first() returns on an empty result.
NoBinding == BindingRow(NoneVal, NoneVal)

\* No exception raised.
NoExc == [exc |-> NoneVal, router_id |-> NoneVal, agent_id |-> NoneVal]

\* An exception, with the router and agent it names (RouterSchedulingFailed).
Exc(name, router_id, agent_id) ==
    [exc |-> name, router_id |-> router_id, agent_id |-> agent_id]

(***************************************************************************)
(* Inventory: routers, agents, ports                                       *)
(***************************************************************************)
Router(id, distributed, gw) ==
    ("id" :> id) @@ distributed @@ ("external_gateway_info" :> gw)

Gateway(network_id) == "network_id" :> network_id

\* The routers of the scheduling scenarios: distributed with a gateway,
\* distributed without one, centralized with a gateway.
RouterCatalog ==
    { Router("R1", "distributed" :> TRUE, Gateway("N1")),
      Router("R2", "distributed" :> TRUE, EmptyDict),
      Router("R3", "distributed" :> FALSE, Gateway("N1")) }

\* Every shape of sync_router that get_snat_candidates distinguishes.
RouterSpace ==
    { Router("R1", d, g) :
        d \in {EmptyDict, "distributed" :> TRUE, "distributed" :> FALSE},
        g \in {EmptyDict, Gateway("N1")} }

Agent(id, host, admin_state_up, is_active, configurations) ==
    [id |-> id, host |-> host, admin_state_up |-> admin_state_up,
     is_active |-> is_active, configurations |-> configurations]

\* Every agent configuration dictionary get_snat_candidates distinguishes:
\* each key may be missing.
ConfSpace ==
    { m @@ r @@ h @@ g :
        m \in {EmptyDict} \cup
              {(L3_AGENT_MODE :> x) : x \in {L3_AGENT_MODE_LEGACY,
                                             L3_AGENT_MODE_DVR,
                                             L3_AGENT_MODE_DVR_SNAT}},
        r \in {EmptyDict} \cup
              {("router_id" :> x) : x \in {NoneVal, "", "R1", "R9"}},
        h \in {EmptyDict} \cup
              {("handle_internal_only_routers" :> x) : x \in BOOLEAN},
        g \in {EmptyDict} \cup
              {("gateway_external_network_id" :> x) :
                  x \in {NoneVal, "", "N1", "N2"}} }

\* An agent that takes any distributed router: dvr_snat, no restriction.
SnatConf == L3_AGENT_MODE :> L3_AGENT_MODE_DVR_SNAT

\* A compute-node agent.
DvrConf == L3_AGENT_MODE :> L3_AGENT_MODE_DVR

\* The agents of the scheduling scenarios: two service nodes, one compute node.
AgentCatalog ==
    { Agent("A1", "H1", TRUE, TRUE, SnatConf),
      Agent("A2", "H2", TRUE, TRUE, SnatConf),
      Agent("A3", "H3", TRUE, TRUE, DvrConf) }

\* Agent tables for the candidate filter: none, one agent of any state and
\* configuration, and that agent beside a plain second one.
AgentSpace ==
    LET any == { Agent("A1", "H1", up, act, c) :
                    up \in BOOLEAN, act \in BOOLEAN, c \in ConfSpace }
        second == { Agent("A2", "H2", TRUE, TRUE, SnatConf),
                    Agent("A2", "H2", TRUE, TRUE, DvrConf) }
    IN  {{}} \cup {{a} : a \in any} \cup {{a, b} : a \in any, b \in second}

Port(id, device_owner, device_id, host, subnets) ==
    [id |-> id, device_owner |-> device_owner, device_id |-> device_id,
     host |-> host,
     fixed_ips |-> [i \in 1..Len(subnets) |-> [subnet_id |-> subnets[i]]]]

\* The DVR interface port attaching a router to subnet S1.
InterfacePort(router_id) ==
    Port("IF1", DEVICE_OWNER_DVR_INTERFACE, router_id, "", <<"S1">>)

\* A VM port on subnet S1, on the host H1 of a service node.
VmPort == Port("P1", DEVICE_OWNER_COMPUTE, "vm1", "H1", <<"S1">>)

\* The port tables of the scenarios for a router attached to S1: without and
\* with the VM port on H1.
PortSpace(router_id) ==
    { {InterfacePort(router_id)}, {InterfacePort(router_id), VmPort} }

(***************************************************************************)
(* Collaborators outside this file                                         *)
(***************************************************************************)
\* get_router(context, router_id)
get_router(router_id) == CHOOSE r \in routers : r["id"] = router_id

\* The agent row with an id (binding.l3_agent).
AgentById(agent_id) == CHOOSE a \in agents : a.id = agent_id

\* get_l3_agents(context, active=True): the agents that are alive, in any order.
get_l3_agents_active == Orderings({a \in agents : a.is_active})

\* n_utils.is_dvr_serviced(device_owner)
is_dvr_serviced(device_owner) ==
    device_owner \in {DEVICE_OWNER_COMPUTE, "neutron:LOADBALANCER", "network:dhcp"}

\* _core_plugin.get_ports_on_host_by_subnet(context, host, subnet)
get_ports_on_host_by_subnet(host, subnet) ==
    {port \in ports : port.host = host /\
        \E i \in 1..Len(port.fixed_ips) : port.fixed_ips[i].subnet_id = subnet}

\* self.router_scheduler: a scheduler driver is configured.
router_scheduler == TRUE

(***************************************************************************)
(* get_snat_candidates                                                     *)
(***************************************************************************)
\* The agent mode of a configuration; a missing mode is legacy.
agent_mode_of(agent_conf) ==
    Get(agent_conf, L3_AGENT_MODE, L3_AGENT_MODE_LEGACY)

\* The tests of get_snat_candidates on the agent's router_id,
\* handle_internal_only_routers and gateway_external_network_id: TRUE when
\* none of them continues.
conf_admits_router(sync_router, agent_conf) ==
    LET router_id == Get(agent_conf, "router_id", NoneVal)
        handle_internal_only_routers ==
            Get(agent_conf, "handle_internal_only_routers", TRUE)
        gateway_external_network_id ==
            Get(agent_conf, "gateway_external_network_id", NoneVal)
        ex_net_id ==
            Get(sync_router["external_gateway_info"], "network_id", NoneVal)
    IN  IF Truthy(router_id) /\ router_id # sync_router["id"] THEN FALSE
        ELSE IF \/ (~Truthy(ex_net_id) /\ ~handle_internal_only_routers)
                \/ (/\ Truthy(ex_net_id)
                    /\ Truthy(gateway_external_network_id)
                    /\ ex_net_id # gateway_external_network_id)
             THEN FALSE
        ELSE TRUE

\* snat_candidate_test without the admin_state_up test.
snat_candidate_test_admin_down(sync_router, l3_agent) ==
    IF agent_mode_of(l3_agent.configurations) # L3_AGENT_MODE_DVR_SNAT THEN FALSE
    ELSE conf_admits_router(sync_router, l3_agent.configurations)

\* snat_candidate_test without the agent mode test.
snat_candidate_test_any_mode(sync_router, l3_agent) ==
    IF ~l3_agent.admin_state_up THEN FALSE
    ELSE conf_admits_router(sync_router, l3_agent.configurations)

\* One pass of the loop body of get_snat_candidates: TRUE when the agent
\* reaches candidates.append, FALSE when one of the tests continues.
snat_candidate_test(sync_router, l3_agent) ==
    IF ~l3_agent.admin_state_up THEN FALSE
    ELSE IF agent_mode_of(l3_agent.configurations) # L3_AGENT_MODE_DVR_SNAT
         THEN FALSE
    ELSE conf_admits_router(sync_router, l3_agent.configurations)

\* The loop of get_snat_candidates over the agent list, in list order.
RECURSIVE candidates_loop(_, _)
candidates_loop(sync_router, l3_agents) ==
    IF l3_agents = <<>> THEN <<>>
    ELSE LET rest == candidates_loop(sync_router, Tail(l3_agents))
         IN  IF snat_candidate_test(sync_router, Head(l3_agents))
             THEN <<Head(l3_agents)>> \o rest
             ELSE rest

\* get_snat_candidates without the test of the distributed flag.
get_snat_candidates_any_router(sync_router, l3_agents) ==
    candidates_loop(sync_router, l3_agents)

\* get_snat_candidates(sync_router, l3_agents): the list of candidates.
get_snat_candidates(sync_router, l3_agents) ==
    IF ~Get(sync_router, "distributed", FALSE) THEN <<>>
    ELSE candidates_loop(sync_router, l3_agents)

(***************************************************************************)
(* Request threads                                                         *)
(***************************************************************************)
\* The frame of a port event callback that runs on a thread: the callback, its
\* position, its keyword arguments (an argument that may be missing is a set
\* of at most one value) and the calls it has made to the L3 plugin, in order.
\* A thread holds the frames of the callbacks it runs, none or one.
NoHandler ==
    [name |-> NoneVal, pc |-> NoneVal, port |-> {}, original_port |-> {},
     removed_routers |-> <<>>, mac_address_updated |-> FALSE, calls |-> <<>>]

Idle ==
    [op |-> "idle", pc |-> "idle", router_id |-> NoneVal, agent_id |-> NoneVal,
     chosen |-> NoneVal, binding |-> NoBinding, result |-> NoneVal,
     raised |-> NoExc, sent |-> <<>>,
     port_id |-> NoneVal, host |-> NoneVal, router_ids |-> {}, todo |-> {},
     removed_router_info |-> <<>>, needed |-> FALSE, handler |-> <<>>]

\* The frame of the callback a thread record runs, NoHandler when it runs
\* none.
HandlerOf(thread) ==
    IF thread.handler = <<>> THEN NoHandler ELSE thread.handler[1]

\* The frame of the callback thread p runs.
Handler(p) == HandlerOf(proc[p])

\* A call begins: its arguments are recorded.
Begin(op, pc, router_id, agent_id) ==
    [Idle EXCEPT !.op = op, !.pc = pc, !.router_id = router_id,
                 !.agent_id = agent_id]

\* A call that a callback running on thread p may make: the callback's frame
\* stays.
Call(p, op, pc, router_id, agent_id) ==
    [Begin(op, pc, router_id, agent_id) EXCEPT !.handler = proc[p].handler]

\* The call of thread p returns `result`.
Returned(p, result) ==
    [proc EXCEPT ![p].pc = "done", ![p].result = result]

\* The call of thread p ends with an exception.
Raised(p, exc) ==
    [proc EXCEPT ![p].pc = "done", ![p].raised = exc]

\* What the store answers to an insert of `row` into `table`: the primary-key
\* violation when the row exists, else what the store does (it may fail).
DbOutcomes == {"ok", "DBError"}

InsertOutcome(table, row, db) ==
    IF row \in table THEN "DBDuplicateEntry" ELSE db

(***************************************************************************)
(* schedule_snat_router                                                    *)
(***************************************************************************)
\* bind_snat_servicenode_failed without the except clause.
bind_snat_servicenode_unhandled(p, call, outcome) ==
    [call EXCEPT ![p].pc = "done",
                 ![p].raised = Exc(outcome, NoneVal, NoneVal)]

\* What schedule_snat_router does with an exception of bind_snat_servicenode:
\* on DBDuplicateEntry it logs and returns None, anything else passes.
bind_snat_servicenode_failed(p, call, outcome) ==
    IF outcome = "DBDuplicateEntry"
    THEN [call EXCEPT ![p].pc = "done"]
    ELSE [call EXCEPT ![p].pc = "done",
                      ![p].raised = Exc(outcome, NoneVal, NoneVal)]

\* schedule_snat_router up to the end of bind_snat_servicenode: the agent
\* lookup, the candidate filter, random.choice and the transaction of
\* bind_snat_router that inserts the CentralizedSnatL3AgentBinding.
schedule_snat_router(p, router_id) ==
    /\ proc[p].op = "idle"
    /\ router_id \in {r["id"] : r \in routers}
    /\ UNCHANGED <<routers, agents, ports, dvr_bindings, l3bindings>>
    /\ LET sync_router == get_router(router_id)
           call == [proc EXCEPT ![p] =
                       Begin("schedule_snat_router", "start", router_id, NoneVal)]
       IN  \E active_l3_agents \in get_l3_agents_active :
             IF active_l3_agents = <<>>
             THEN /\ proc' = [call EXCEPT ![p].pc = "done"]
                  /\ UNCHANGED csnat
             ELSE LET snat_candidates ==
                          get_snat_candidates(sync_router, active_l3_agents)
                  IN  IF snat_candidates = <<>>
                      THEN /\ proc' = [call EXCEPT ![p].pc = "done"]
                           /\ UNCHANGED csnat
                      ELSE \E i \in 1..Len(snat_candidates), db \in DbOutcomes :
                             LET chosen_snat_agent == snat_candidates[i]
                                 row == BindingRow(router_id, chosen_snat_agent.id)
                                 outcome == InsertOutcome(csnat, row, db)
                             IN  IF outcome = "ok"
                                 THEN /\ csnat' = csnat \cup {row}
                                      /\ proc' = [call EXCEPT
                                           ![p].pc = "bind_dvr_router_servicenode",
                                           ![p].chosen = chosen_snat_agent.id]
                                 ELSE /\ UNCHANGED csnat
                                      /\ proc' = bind_snat_servicenode_failed(
                                                    p, call, outcome)

\* What the caller of bind_dvr_router_servicenode does when it returns:
\* schedule_snat_router returns the chosen agent, create_router_to_agent_binding
\* returns nothing.
AfterBindDvr(p) ==
    IF proc[p].op = "schedule_snat_router"
    THEN Returned(p, proc[p].chosen)
    ELSE Returned(p, NoneVal)

\* BindDvrFailed when no caller wraps the exception.
BindDvrFailed_unwrapped(p, outcome) ==
    Raised(p, Exc(outcome, NoneVal, NoneVal))

\* What the caller does with an exception of bind_dvr_router_servicenode:
\* schedule_snat_router lets it pass, create_router_to_agent_binding turns every
\* DBError into RouterSchedulingFailed.
BindDvrFailed(p, outcome) ==
    IF proc[p].op = "schedule_snat_router"
    THEN Raised(p, Exc(outcome, NoneVal, NoneVal))
    ELSE Raised(p, Exc("RouterSchedulingFailed",
                       proc[p].router_id, proc[p].chosen))

\* bind_dvr_router_servicenode, the query: return when the router is already
\* hosted on the chosen agent.
bind_dvr_router_servicenode(p) ==
    /\ proc[p].pc = "bind_dvr_router_servicenode"
    /\ UNCHANGED <<routers, agents, ports, dvr_bindings, csnat, l3bindings>>
    /\ IF \E bind \in l3bindings :
            /\ bind.router_id = proc[p].router_id
            /\ bind.l3_agent_id = proc[p].chosen
       THEN proc' = AfterBindDvr(p)
       ELSE proc' = [proc EXCEPT ![p].pc = "bind_dvr_insert"]

\* bind_dvr_router_servicenode, the transaction that inserts the
\* RouterL3AgentBinding.
bind_dvr_insert(p) ==
    /\ proc[p].pc = "bind_dvr_insert"
    /\ UNCHANGED <<routers, agents, ports, dvr_bindings, csnat>>
    /\ \E db \in DbOutcomes :
         LET row == BindingRow(proc[p].router_id, proc[p].chosen)
             outcome == InsertOutcome(l3bindings, row, db)
         IN  IF outcome = "ok"
             THEN /\ l3bindings' = l3bindings \cup {row}
                  /\ proc' = AfterBindDvr(p)
             ELSE /\ UNCHANGED l3bindings
                  /\ proc' = BindDvrFailed(p, outcome)

(***************************************************************************)
(* create_router_to_agent_binding                                          *)
(***************************************************************************)
\* The inherited create_router_to_agent_binding: the generic scheduler binds
\* the router to the agent unless that binding exists.
generic_create_router_to_agent_binding(p, call, router_id, agent_id) ==
    /\ UNCHANGED csnat
    /\ \E db \in DbOutcomes :
         LET row == BindingRow(router_id, agent_id)
         IN  IF row \in l3bindings
             THEN /\ UNCHANGED l3bindings
                  /\ proc' = [call EXCEPT ![p].pc = "done"]
             ELSE IF db = "ok"
             THEN /\ l3bindings' = l3bindings \cup {row}
                  /\ proc' = [call EXCEPT ![p].pc = "done"]
             ELSE /\ UNCHANGED l3bindings
                  /\ proc' = [call EXCEPT ![p].pc = "done",
                         ![p].raised =
                            Exc("RouterSchedulingFailed", router_id, agent_id)]

\* binds_snat without the test of the distributed flag.
binds_snat_any_router(router) ==
    /\ DOMAIN router["external_gateway_info"] # {}
    /\ router_scheduler

\* binds_snat without the test of the external gateway.
binds_snat_any_gateway(router) ==
    /\ router_scheduler
    /\ Get(router, "distributed", FALSE)

\* The test of create_router_to_agent_binding that selects the SNAT bind.
binds_snat(router) ==
    /\ DOMAIN router["external_gateway_info"] # {}
    /\ router_scheduler
    /\ Get(router, "distributed", FALSE)

\* create_router_to_agent_binding up to the end of bind_snat_router: for a
\* distributed router with a gateway the transaction that inserts the
\* CentralizedSnatL3AgentBinding for the given agent, else the inherited bind.
create_router_to_agent_binding(p, agent, router) ==
    /\ proc[p].op = "idle"
    /\ UNCHANGED <<routers, agents, ports, dvr_bindings>>
    /\ LET router_id == router["id"]
           agent_id == agent.id
           call == [proc EXCEPT ![p] =
                       Begin("create_router_to_agent_binding", "start",
                             router_id, agent_id)]
       IN  IF binds_snat(router)
           THEN /\ UNCHANGED l3bindings
                /\ \E db \in DbOutcomes :
                     LET row == BindingRow(router_id, agent_id)
                         outcome == InsertOutcome(csnat, row, db)
                     IN  IF outcome = "ok"
                         THEN /\ csnat' = csnat \cup {row}
                              /\ proc' = [call EXCEPT
                                   ![p].pc = "bind_dvr_router_servicenode",
                                   ![p].chosen = agent_id]
                         ELSE /\ UNCHANGED csnat
                              /\ proc' = [call EXCEPT ![p].pc = "done",
                                   ![p].raised = Exc("RouterSchedulingFailed",
                                                     router_id, agent_id)]
           ELSE generic_create_router_to_agent_binding(p, call, router_id, agent_id)

(***************************************************************************)
(* unbind_snat, unbind_router_servicenode, unbind_snat_servicenode          *)
(***************************************************************************)
\* snat_query without the filter on the agent.
snat_query_any_agent(router_id, agent_id) ==
    {b \in csnat : b.router_id = router_id}

\* The query of unbind_snat: the SNAT bindings of the router, of the one agent
\* when agent_id is given.
snat_query(router_id, agent_id) ==
    {b \in csnat : /\ b.router_id = router_id
                   /\ (Truthy(agent_id) => b.l3_agent_id = agent_id)}

\* get_subnet_ids_on_router: the subnet of the first fixed IP of every port
\* of the router.
get_subnet_ids_on_router(router_id) ==
    {int_port.fixed_ips[1].subnet_id :
        int_port \in {q \in ports : q.device_id = router_id /\
                                    Len(q.fixed_ips) > 0}}

\* port_found of unbind_router_servicenode: a DVR-serviced port on the host
\* on one of the router's subnets.
port_found(router_id, host) ==
    \E subnet \in get_subnet_ids_on_router(router_id) :
       \E port \in get_ports_on_host_by_subnet(host, subnet) :
          is_dvr_serviced(port.device_owner)

\* The rows unbind_router_servicenode deletes from RouterL3AgentBinding.
servicenode_rows(router_id, binding) ==
    IF port_found(router_id, AgentById(binding.l3_agent_id).host)
    THEN {}
    ELSE {BindingRow(router_id, binding.l3_agent_id)}

\* The notification unbind_router_servicenode sends after its transaction.
servicenode_notice(router_id, binding) ==
    IF port_found(router_id, AgentById(binding.l3_agent_id).host)
    THEN <<>>
    ELSE << <<"router_removed_from_agent", router_id,
              AgentById(binding.l3_agent_id).host>> >>

\* unbind_snat as a request: one transaction that deletes every row of the
\* query and returns the first one.
unbind_snat(p, router_id, agent_id) ==
    /\ proc[p].op = "idle"
    /\ UNCHANGED <<routers, agents, ports, dvr_bindings, l3bindings>>
    /\ LET query == snat_query(router_id, agent_id)
           call == [proc EXCEPT ![p] =
                       Begin("unbind_snat", "start", router_id, agent_id)]
       IN  IF query = {}
           THEN /\ UNCHANGED csnat
                /\ proc' = [call EXCEPT ![p].pc = "done"]
           ELSE \E binding \in query :
                  /\ csnat' = csnat \ query
                  /\ proc' = [call EXCEPT ![p].pc = "done",
                                          ![p].binding = binding,
                                          ![p].result = "binding"]

\* Where a transaction of unbind_snat_servicenode may fail.
UnbindFailures == {"none", "unbind_router_servicenode", "commit"}

\* unbind_snat_servicenode: unbind_snat and unbind_router_servicenode inside one
\* transaction.  A failure rolls both deletions back; the notification of
\* unbind_router_servicenode goes out before the outer transaction commits.
unbind_snat_servicenode_txn(p, call, router_id) ==
    LET query == snat_query(router_id, NoneVal)
    IN  IF query = {}
        THEN /\ UNCHANGED <<csnat, l3bindings>>
             /\ proc' = [call EXCEPT ![p].pc = "done"]
        ELSE \E binding \in query, failure \in UnbindFailures :
               LET gone == servicenode_rows(router_id, binding)
                   notice == servicenode_notice(router_id, binding)
               IN  CASE failure = "none" ->
                          /\ csnat' = csnat \ query
                          /\ l3bindings' = l3bindings \ gone
                          /\ proc' = [call EXCEPT ![p].pc = "done",
                                                  ![p].binding = binding,
                                                  ![p].sent = notice]
                     [] failure = "unbind_router_servicenode" ->
                          /\ UNCHANGED <<csnat, l3bindings>>
                          /\ proc' = [call EXCEPT ![p].pc = "done",
                                 ![p].binding = binding,
                                 ![p].raised = Exc("DBError", NoneVal, NoneVal)]
                     [] OTHER ->
                          /\ UNCHANGED <<csnat, l3bindings>>
                          /\ proc' = [call EXCEPT ![p].pc = "done",
                                 ![p].binding = binding,
                                 ![p].sent = notice,
                                 ![p].raised = Exc("DBError", NoneVal, NoneVal)]

unbind_snat_servicenode(p, router_id) ==
    /\ proc[p].op = "idle"
    /\ UNCHANGED <<routers, agents, ports, dvr_bindings>>
    /\ unbind_snat_servicenode_txn(p,
          [proc EXCEPT ![p] =
              Begin("unbind_snat_servicenode", "start", router_id, NoneVal)],
          router_id)

(***************************************************************************)
(* _unschedule_router                                                      *)
(***************************************************************************)
\* The inherited _unschedule_router: the bindings of the router to the given
\* agents are deleted.
generic_unschedule_router(p, call, router_id, agents_ids) ==
    /\ UNCHANGED csnat
    /\ l3bindings' = {b \in l3bindings :
                         ~(b.router_id = router_id /\ b.l3_agent_id \in agents_ids)}
    /\ proc' = [call EXCEPT ![p].pc = "done"]

\* unschedule_router without the test of the distributed flag.
unschedule_router_generic(p, router_id, agents_ids) ==
    /\ proc[p].op = "idle"
    /\ UNCHANGED <<routers, agents, ports, dvr_bindings>>
    /\ generic_unschedule_router(p,
          [proc EXCEPT ![p] =
              Begin("_unschedule_router", "start", router_id, NoneVal)],
          router_id, agents_ids)

\* _unschedule_router: only the SNAT portion for a distributed router.
unschedule_router(p, router_id, agents_ids) ==
    /\ proc[p].op = "idle"
    /\ UNCHANGED <<routers, agents, ports, dvr_bindings>>
    /\ LET router == get_router(router_id)
           call == [proc EXCEPT ![p] =
                       Begin("_unschedule_router", "start", router_id, NoneVal)]
       IN  IF Get(router, "distributed", FALSE)
           THEN unbind_snat_servicenode_txn(p, call, router_id)
           ELSE generic_unschedule_router(p, call, router_id, agents_ids)

(***************************************************************************)
(* remove_router_from_l3_agent                                             *)
(***************************************************************************)
\* The inherited remove_router_from_l3_agent: the binding of the router to
\* the agent is deleted and the agent is told.
generic_remove_router_from_l3_agent(p, call, agent_id, router_id) ==
    /\ UNCHANGED csnat
    /\ l3bindings' = l3bindings \ {BindingRow(router_id, agent_id)}
    /\ proc' = [call EXCEPT ![p].pc = "done",
           ![p].sent = Append(call[p].sent,
                <<"router_removed_from_agent", router_id,
                  AgentById(agent_id).host>>)]

\* remove_router_from_l3_agent when the inherited removal runs whatever
\* unbind_snat returned.
remove_router_from_l3_agent_generic(p, agent_id, router_id) ==
    /\ proc[p].op = "idle"
    /\ UNCHANGED <<routers, agents, ports, dvr_bindings>>
    /\ generic_remove_router_from_l3_agent(p,
          [proc EXCEPT ![p] =
              Begin("remove_router_from_l3_agent", "start", router_id, agent_id)],
          agent_id, router_id)

\* remove_router_from_l3_agent up to the end of unbind_snat: for a distributed
\* router with a gateway the transaction of unbind_snat for the agent; the
\* inherited removal when there was nothing to unbind.
remove_router_from_l3_agent(p, agent_id, router_id) ==
    /\ proc[p].op = "idle"
    /\ UNCHANGED <<routers, agents, ports, dvr_bindings>>
    /\ LET router == get_router(router_id)
           call == [proc EXCEPT ![p] =
                       Call(p, "remove_router_from_l3_agent", "start",
                            router_id, agent_id)]
           query == snat_query(router_id, agent_id)
       IN  IF /\ DOMAIN router["external_gateway_info"] # {}
              /\ Get(router, "distributed", FALSE)
              /\ query # {}
           THEN \E binding \in query :
                  /\ csnat' = csnat \ query
                  /\ UNCHANGED l3bindings
                  /\ proc' = [call EXCEPT ![p].pc = "unbind_router_servicenode",
                                          ![p].binding = binding]
           ELSE generic_remove_router_from_l3_agent(p, call, agent_id, router_id)

\* routers_updated_notice when the result of unbind_router_servicenode is
\* not looked at.
routers_updated_notice_always(router_id, notification_not_sent) ==
    << <<"routers_updated", router_id, "schedule_routers=False">> >>

\* What remove_router_from_l3_agent sends after unbind_router_servicenode,
\* whose result says whether the binding was kept:
\* routers_updated(context, [router_id], schedule_routers=False) if it was.
routers_updated_notice(router_id, notification_not_sent) ==
    IF notification_not_sent
    THEN << <<"routers_updated", router_id, "schedule_routers=False">> >>
    ELSE <<>>

\* remove_router_from_l3_agent after unbind_snat found a binding: the
\* transaction of unbind_router_servicenode, its notification, and
\* routers_updated when the binding was kept.
remove_unbind_router_servicenode(p) ==
    /\ proc[p].pc = "unbind_router_servicenode"
    /\ UNCHANGED <<routers, agents, ports, dvr_bindings, csnat>>
    /\ \E db \in DbOutcomes :
         LET router_id == proc[p].router_id
             binding == proc[p].binding
             gone == servicenode_rows(router_id, binding)
             notification_not_sent ==
                port_found(router_id, AgentById(binding.l3_agent_id).host)
         IN  IF db = "ok"
             THEN /\ l3bindings' = l3bindings \ gone
                  /\ proc' = [proc EXCEPT ![p].pc = "done",
                        ![p].sent =
                           servicenode_notice(router_id, binding)
                           \o routers_updated_notice(router_id,
                                                     notification_not_sent)]
             ELSE /\ UNCHANGED l3bindings
                  /\ proc' = Raised(p, Exc(db, NoneVal, NoneVal))

\* The caller takes the result; the thread is free for the next request.
Return(p) ==
    /\ proc[p].pc = "done"
    /\ proc' = [proc EXCEPT ![p] = Idle]
    /\ UNCHANGED <<routers, agents, ports, dvr_bindings, csnat, l3bindings>>

(***************************************************************************)
(* check_agent_router_scheduling_needed                                    *)
(***************************************************************************)
\* get_snat_bindings(context, router_ids)
get_snat_bindings(router_ids) ==
    IF router_ids = {} THEN {}
    ELSE {b \in csnat : b.router_id \in router_ids}

\* scheduling_needed without the test of the external gateway.
scheduling_needed_any_gateway(agent, router, generic) ==
    IF Get(router, "distributed", FALSE)
    THEN get_snat_bindings({router["id"]}) = {}
    ELSE generic

\* The result of check_agent_router_scheduling_needed; `generic` is what the
\* inherited check answers.
scheduling_needed(agent, router, generic) ==
    IF Get(router, "distributed", FALSE)
    THEN IF DOMAIN router["external_gateway_info"] # {}
         THEN get_snat_bindings({router["id"]}) = {}
         ELSE FALSE
    ELSE generic

\* check_agent_router_scheduling_needed as a request: it reads the SNAT
\* bindings and changes nothing.
check_agent_router_scheduling_needed(p, agent, router) ==
    /\ proc[p].op = "idle"
    /\ UNCHANGED <<routers, agents, ports, dvr_bindings, csnat, l3bindings>>
    /\ \E generic \in BOOLEAN :
         proc' = [proc EXCEPT ![p] =
                     [Begin("check_agent_router_scheduling_needed", "done",
                            router["id"], agent.id)
                        EXCEPT !.result = "bool",
                               !.needed = scheduling_needed(agent, router, generic)]]

(***************************************************************************)
(* get_dvr_routers_by_portid, dvr_handle_new_service_port                  *)
(***************************************************************************)
\* _core_plugin.get_port(context, port_id)
get_port(port_id) == CHOOSE port \in ports : port.id = port_id

\* The subnets of the fixed IPs of a port.
subnets_of(port) ==
    {port.fixed_ips[i].subnet_id : i \in 1..Len(port.fixed_ips)}

\* ports_on_subnet without the device_owner filter.
ports_on_subnet_any_owner(vm_subnet) ==
    {q \in ports : vm_subnet \in subnets_of(q)}

\* _core_plugin.get_ports with filter_sub: the DVR interface ports with a
\* fixed IP on the subnet.
ports_on_subnet(vm_subnet) ==
    {q \in ports : /\ vm_subnet \in subnets_of(q)
                   /\ q.device_owner = DEVICE_OWNER_DVR_INTERFACE}

\* The loop of get_dvr_routers_by_portid over the fixed IPs.
RECURSIVE routers_of_fixed_ips(_)
routers_of_fixed_ips(fixed_ips) ==
    IF fixed_ips = <<>> THEN {}
    ELSE {subnet_port.device_id :
             subnet_port \in ports_on_subnet(Head(fixed_ips).subnet_id)}
         \cup routers_of_fixed_ips(Tail(fixed_ips))

\* get_dvr_routers_by_portid(context, port_id, fixed_ips): the optional
\* fixed_ips is the empty set for None, else the set holding the list.
get_dvr_routers_by_portid(port_id, fixed_ips) ==
    routers_of_fixed_ips(IF fixed_ips = {} THEN get_port(port_id).fixed_ips
                         ELSE CHOOSE l \in fixed_ips : TRUE)

\* get_l3_agents without the host filter.
get_l3_agents_any_host(port_host) == agents

\* get_l3_agents(context, filters={'host': [port_host]})
get_l3_agents_on_host(port_host) == {a \in agents : a.host = port_host}

\* check_l3_agent_router_binding(context, router_id, agent_id)
check_l3_agent_router_binding(router_id, agent_id) ==
    BindingRow(router_id, agent_id) \in l3bindings

\* dvr_handle_new_service_port without the return for a host that has no
\* L3 agent.
dvr_handle_new_service_port_without_return(p, port) ==
    /\ proc[p].op = "idle"
    /\ UNCHANGED <<routers, agents, ports, dvr_bindings, csnat, l3bindings>>
    /\ LET port_host == port.host
           on_host == get_l3_agents_on_host(port_host)
           router_ids == get_dvr_routers_by_portid(port.id, {port.fixed_ips})
       IN  \E agent_id \in IF on_host = {} THEN {NoneVal}
                           ELSE {a.id : a \in on_host} :
              proc' = [proc EXCEPT ![p] =
                          [Call(p, "dvr_handle_new_service_port",
                                "for_router_id", NoneVal, agent_id)
                             EXCEPT !.port_id = port.id, !.host = port_host,
                                    !.router_ids = router_ids,
                                    !.todo = router_ids]]

\* dvr_handle_new_service_port up to the loop: the agent on the port's host
\* and the routers of the port's subnets.
dvr_handle_new_service_port(p, port) ==
    /\ proc[p].op = "idle"
    /\ UNCHANGED <<routers, agents, ports, dvr_bindings, csnat, l3bindings>>
    /\ LET port_host == port.host
           call == [proc EXCEPT ![p] =
                       [Call(p, "dvr_handle_new_service_port", "start",
                             NoneVal, NoneVal)
                          EXCEPT !.port_id = port.id, !.host = port_host]]
       IN  IF get_l3_agents_on_host(port_host) = {}
           THEN proc' = [call EXCEPT ![p].pc = "done"]
           ELSE \E l3_agent_on_host \in get_l3_agents_on_host(port_host) :
                  LET router_ids ==
                          get_dvr_routers_by_portid(port.id, {port.fixed_ips})
                  IN  proc' = [call EXCEPT
                                 ![p].pc = "for_router_id",
                                 ![p].agent_id = l3_agent_on_host.id,
                                 ![p].router_ids = router_ids,
                                 ![p].todo = router_ids]

\* for_router_id without check_l3_agent_router_binding: every router id is
\* handed to schedule_router.
for_router_id_without_check(p) ==
    /\ proc[p].pc = "for_router_id"
    /\ UNCHANGED <<routers, agents, ports, dvr_bindings, csnat, l3bindings>>
    /\ IF proc[p].todo = {}
       THEN proc' = [proc EXCEPT
                       ![p].pc = "done",
                       ![p].router_id = NoneVal,
                       ![p].sent = << <<"routers_updated_on_host",
                                        proc[p].router_ids, proc[p].host>> >>]
       ELSE \E router_id \in proc[p].todo :
              proc' = [proc EXCEPT ![p].pc = "schedule_router",
                                   ![p].router_id = router_id]

\* for_router_id when a router that is already bound ends the call: no
\* notification goes out for it.
for_router_id_returns_when_bound(p) ==
    /\ proc[p].pc = "for_router_id"
    /\ UNCHANGED <<routers, agents, ports, dvr_bindings, csnat, l3bindings>>
    /\ IF proc[p].todo = {}
       THEN proc' = [proc EXCEPT
                       ![p].pc = "done",
                       ![p].router_id = NoneVal,
                       ![p].sent = << <<"routers_updated_on_host",
                                        proc[p].router_ids, proc[p].host>> >>]
       ELSE \E router_id \in proc[p].todo :
              IF ~check_l3_agent_router_binding(router_id, proc[p].agent_id)
              THEN proc' = [proc EXCEPT ![p].pc = "schedule_router",
                                        ![p].router_id = router_id]
              ELSE proc' = [proc EXCEPT ![p].pc = "done",
                                        ![p].router_id = router_id]

\* One pass of the loop up to schedule_router: the binding check of the next
\* router id; after the last router id the notification goes out.
for_router_id(p) ==
    /\ proc[p].pc = "for_router_id"
    /\ UNCHANGED <<routers, agents, ports, dvr_bindings, csnat, l3bindings>>
    /\ IF proc[p].todo = {}
       THEN proc' = [proc EXCEPT
                       ![p].pc = "done",
                       ![p].router_id = NoneVal,
                       ![p].sent = << <<"routers_updated_on_host",
                                        proc[p].router_ids, proc[p].host>> >>]
       ELSE \E router_id \in proc[p].todo :
              IF ~check_l3_agent_router_binding(router_id, proc[p].agent_id)
              THEN proc' = [proc EXCEPT ![p].pc = "schedule_router",
                                        ![p].router_id = router_id]
              ELSE proc' = [proc EXCEPT ![p].router_id = router_id,
                                        ![p].todo = @ \ {router_id}]

\* schedule_router(context, router_id, candidates=[l3_agent_on_host]): the
\* generic scheduling binds the router to the sole candidate.
schedule_router(p) ==
    /\ proc[p].pc = "schedule_router"
    /\ UNCHANGED <<routers, agents, ports, dvr_bindings, csnat>>
    /\ l3bindings' = l3bindings \cup
                        {BindingRow(proc[p].router_id, proc[p].agent_id)}
    /\ proc' = [proc EXCEPT ![p].pc = "for_router_id",
                            ![p].todo = @ \ {proc[p].router_id}]

(***************************************************************************)
(* dvr_deletens_if_no_port                                                 *)
(***************************************************************************)
\* A row of the per-host bindings of a DVR interface port.
DvrBinding(port_id, host, router_id) ==
    [port_id |-> port_id, host |-> host, router_id |-> router_id]

\* ml2_db.get_port_binding_host(session, port_id)
get_port_binding_host(port_id) ==
    IF \E port \in ports : port.id = port_id
    THEN get_port(port_id).host
    ELSE NoneVal

\* check_dvr_serviceable_ports_on_host(context, host, subnet_ids, except_port)
check_dvr_serviceable_ports_on_host(host, subnet_ids, except_port) ==
    \E port \in ports :
       /\ port.host = host
       /\ port.id # except_port
       /\ is_dvr_serviced(port.device_owner)
       /\ subnets_of(port) \cap subnet_ids # {}

\* routers_to_remove when the port being removed counts as a port that is
\* still on the host.
RECURSIVE routers_to_remove_counting_port(_, _, _)
routers_to_remove_counting_port(order, port_id, port_host) ==
    IF order = <<>> THEN <<>>
    ELSE LET router_id == Head(order)
             rest == routers_to_remove_counting_port(Tail(order), port_id,
                                                     port_host)
         IN  IF check_dvr_serviceable_ports_on_host(
                   port_host, get_subnet_ids_on_router(router_id), NoneVal)
             THEN rest
             ELSE <<router_id>> \o rest

\* The routers of the list for which dvr_deletens_if_no_port does not
\* continue: no other serviceable port is left on the host.
RECURSIVE routers_to_remove(_, _, _)
routers_to_remove(order, port_id, port_host) ==
    IF order = <<>> THEN <<>>
    ELSE LET router_id == Head(order)
             rest == routers_to_remove(Tail(order), port_id, port_host)
         IN  IF check_dvr_serviceable_ports_on_host(
                   port_host, get_subnet_ids_on_router(router_id), port_id)
             THEN rest
             ELSE <<router_id>> \o rest

\* The DVR interface ports of a router (filter_rtr).
int_ports(router_id) ==
    {port.id : port \in {q \in ports :
                            /\ q.device_id = router_id
                            /\ q.device_owner = DEVICE_OWNER_DVR_INTERFACE}}

\* unbind_ports without the host of get_dvr_port_binding_by_host.
unbind_ports_any_host(bindings, router_ids, port_host) ==
    {IF \E router_id \in router_ids : b.port_id \in int_ports(router_id)
     THEN DvrBinding(b.port_id, b.host, NoneVal)
     ELSE b : b \in bindings}

\* The bindings after the inner loop: the binding for the host of every DVR
\* interface port of the routers has its router_id set to None.
unbind_ports(bindings, router_ids, port_host) ==
    {IF /\ b.host = port_host
        /\ \E router_id \in router_ids : b.port_id \in int_ports(router_id)
     THEN DvrBinding(b.port_id, b.host, NoneVal)
     ELSE b : b \in bindings}

\* The removal record of a router on a host.
removed_info(router_id, port_host, agent) ==
    [router_id |-> router_id, host |-> port_host, agent_id |-> agent.id]

\* dvr_deletens_if_no_port(context, port_id, port_host): the routers of the
\* port are taken in any order.  The agent lookup of the first router to
\* remove has no agent to return on a host without an L3 agent.
dvr_deletens_if_no_port(p, port_id, port_host) ==
    /\ proc[p].op = "idle"
    /\ UNCHANGED <<routers, agents, ports, csnat, l3bindings>>
    /\ LET router_ids == get_dvr_routers_by_portid(port_id, {})
           host == IF Truthy(port_host) THEN port_host
                   ELSE get_port_binding_host(port_id)
           call == [proc EXCEPT ![p] =
                       [Call(p, "dvr_deletens_if_no_port", "start",
                             NoneVal, NoneVal)
                          EXCEPT !.port_id = port_id, !.host = host,
                                 !.router_ids = router_ids]]
       IN  IF ~Truthy(host) \/ router_ids = {}
           THEN /\ UNCHANGED dvr_bindings
                /\ proc' = [call EXCEPT ![p].pc = "done", ![p].result = "list"]
           ELSE \E order \in Orderings(router_ids) :
                  LET removed == routers_to_remove(order, port_id, host)
                      on_host == {a \in agents : a.host = host}
                  IN  IF removed = <<>>
                      THEN /\ UNCHANGED dvr_bindings
                           /\ proc' = [call EXCEPT ![p].pc = "done",
                                                   ![p].result = "list"]
                      ELSE IF on_host = {}
                      THEN /\ dvr_bindings' =
                                 unbind_ports(dvr_bindings, {Head(removed)}, host)
                           /\ proc' = [call EXCEPT
                                 ![p].pc = "done",
                                 ![p].raised = Exc("AgentNotFoundByTypeHost",
                                                   NoneVal, NoneVal)]
                      ELSE \E agent \in on_host :
                             /\ dvr_bindings' =
                                   unbind_ports(dvr_bindings, Range(removed), host)
                             /\ proc' = [call EXCEPT
                                   ![p].pc = "done",
                                   ![p].result = "list",
                                   ![p].removed_router_info =
                                      [i \in 1..Len(removed) |->
                                          removed_info(removed[i], host, agent)]]

(***************************************************************************)
(* Port event callbacks                                                    *)
(***************************************************************************)
\* The frame of a callback that has just been called.
Event(name, port, original_port, removed_routers, mac_address_updated) ==
    [NoHandler EXCEPT !.name = name, !.pc = "start", !.port = port,
                      !.original_port = original_port,
                      !.removed_routers = removed_routers,
                      !.mac_address_updated = mac_address_updated]

\* The callback of thread p goes on at `pc` with frame h; the call it made,
\* if any, has been taken.
HandlerAt(p, h, pc) ==
    [proc EXCEPT ![p] = [Idle EXCEPT !.handler = << [h EXCEPT !.pc = pc] >>]]

\* The callback of thread p returns with frame h.
HandlerDone(p, h) ==
    [proc EXCEPT ![p] = [Idle EXCEPT !.op = h.name, !.pc = "done",
                                     !.handler = << [h EXCEPT !.pc = "done"] >>]]

\* The exception of the call the callback made passes through the callback.
HandlerRaised(p, h) ==
    [proc EXCEPT ![p] = [Idle EXCEPT !.op = h.name, !.pc = "done",
                                     !.raised = proc[p].raised,
                                     !.handler = << [h EXCEPT !.pc = "done"] >>]]

\* The call of thread p has ended and its caller is a callback at `pc`.
CallEnded(p, op, pc) ==
    /\ Handler(p).pc = pc
    /\ proc[p].op = op
    /\ proc[p].pc = "done"

\* The one value of an argument that is present.
The(arg) == CHOOSE v \in arg : TRUE

\* l3plugin.update_arp_entry_for_dvr_service_port(context, port, action), as
\* an entry of the calls of a callback.
update_arp_entry_for_dvr_service_port(port, action) ==
    <<"update_arp_entry_for_dvr_service_port", port.id, action>>

\* _notify_l3_agent_new_port without the test of the device owner.
notify_l3_agent_new_port_any_owner(p) ==
    /\ Handler(p).name = "_notify_l3_agent_new_port"
    /\ Handler(p).pc = "start"
    /\ UNCHANGED <<routers, agents, ports, dvr_bindings, csnat, l3bindings>>
    /\ LET h == Handler(p)
       IN  IF h.port = {}
           THEN proc' = HandlerDone(p, h)
           ELSE proc' = HandlerAt(p, h, "dvr_handle_new_service_port")

\* _notify_l3_agent_new_port up to its call of dvr_handle_new_service_port.
notify_l3_agent_new_port(p) ==
    /\ Handler(p).name = "_notify_l3_agent_new_port"
    /\ Handler(p).pc = "start"
    /\ UNCHANGED <<routers, agents, ports, dvr_bindings, csnat, l3bindings>>
    /\ LET h == Handler(p)
       IN  IF h.port = {}
           THEN proc' = HandlerDone(p, h)
           ELSE IF is_dvr_serviced(The(h.port).device_owner)
           THEN proc' = HandlerAt(p, h, "dvr_handle_new_service_port")
           ELSE proc' = HandlerDone(p, h)

\* _notify_l3_agent_new_port: l3plugin.dvr_handle_new_service_port(context,
\* port).
new_port_dvr_handle_new_service_port(p) ==
    /\ Handler(p).name = "_notify_l3_agent_new_port"
    /\ Handler(p).pc = "dvr_handle_new_service_port"
    /\ dvr_handle_new_service_port(p, The(Handler(p).port))

\* _notify_l3_agent_new_port after dvr_handle_new_service_port has returned:
\* the ARP entry of the port is added.
new_port_update_arp_entry(p) ==
    /\ Handler(p).name = "_notify_l3_agent_new_port"
    /\ CallEnded(p, "dvr_handle_new_service_port", "dvr_handle_new_service_port")
    /\ UNCHANGED <<routers, agents, ports, dvr_bindings, csnat, l3bindings>>
    /\ LET h == Handler(p)
           port == The(h.port)
       IN  proc' = HandlerDone(p,
                      [h EXCEPT !.calls = @ \o
                          << <<"dvr_handle_new_service_port", port.id>>,
                             update_arp_entry_for_dvr_service_port(port, "add") >>])

\* _notify_port_delete with the port and the removal records given, up to
\* its loop: the ARP entry of the port is deleted.
port_delete_update_arp_entry(h, port, removed_routers) ==
    [h EXCEPT !.removed_routers = removed_routers,
              !.calls = @ \o
                 << update_arp_entry_for_dvr_service_port(port, "del") >>]

\* notify_port_delete without the loop over removed_routers.
notify_port_delete_without_loop(p) ==
    /\ Handler(p).name = "_notify_port_delete"
    /\ Handler(p).pc = "start"
    /\ UNCHANGED <<routers, agents, ports, dvr_bindings, csnat, l3bindings>>
    /\ proc' = HandlerDone(p,
                  port_delete_update_arp_entry(Handler(p),
                      The(Handler(p).port),
                      Handler(p).removed_routers))

\* The port deleted callback up to the loop over removed_routers.
notify_port_delete(p) ==
    /\ Handler(p).name = "_notify_port_delete"
    /\ Handler(p).pc = "start"
    /\ UNCHANGED <<routers, agents, ports, dvr_bindings, csnat, l3bindings>>
    /\ LET h == port_delete_update_arp_entry(Handler(p),
                   The(Handler(p).port), Handler(p).removed_routers)
       IN  IF h.removed_routers = <<>>
           THEN proc' = HandlerDone(p, h)
           ELSE proc' = HandlerAt(p, h, "remove_router_from_l3_agent")

\* The loop of _notify_port_delete: l3plugin.remove_router_from_l3_agent(
\* context.elevated(), router['agent_id'], router['router_id']) for the next
\* removal record.
for_router_in_removed_routers(p) ==
    /\ Handler(p).pc = "remove_router_from_l3_agent"
    /\ Handler(p).removed_routers # <<>>
    /\ LET router == Head(Handler(p).removed_routers)
       IN  remove_router_from_l3_agent(p, router.agent_id, router.router_id)

\* port_update_binding_changed without the test of the hosts.
port_update_binding_changed_any_host(p, h) ==
    IF is_dvr_serviced(The(h.port).device_owner)
    THEN HandlerAt(p, h, "dvr_handle_new_service_port")
    ELSE HandlerDone(p, h)

\* port_update_binding_changed without the test of mac_address_updated.
port_update_binding_changed_without_mac(p, h) ==
    IF /\ Truthy(The(h.port).host)
       /\ The(h.original_port).host # The(h.port).host
       /\ is_dvr_serviced(The(h.port).device_owner)
    THEN HandlerAt(p, h, "dvr_handle_new_service_port")
    ELSE HandlerDone(p, h)

\* _notify_l3_agent_port_update from the test of the new port's host on:
\* dvr_handle_new_service_port is to be called when the port has a new host and
\* is DVR serviced, else the ARP entry is added when the MAC address changed.
port_update_binding_changed(p, h) ==
    LET new_port == The(h.port)
        original_port == The(h.original_port)
        is_new_port_binding_changed ==
            /\ Truthy(new_port.host)
            /\ original_port.host # new_port.host
    IN  IF is_new_port_binding_changed /\ is_dvr_serviced(new_port.device_owner)
        THEN HandlerAt(p, h, "dvr_handle_new_service_port")
        ELSE IF h.mac_address_updated
        THEN HandlerDone(p,
                [h EXCEPT !.calls = @ \o
                    << update_arp_entry_for_dvr_service_port(new_port, "add") >>])
        ELSE HandlerDone(p, h)

\* port_update_after_removal without the return.
port_update_after_removal_goes_on(p, h) ==
    port_update_binding_changed(p, h)

\* _notify_l3_agent_port_update after the removals: it returns when the new
\* device owner is not DVR serviced.
port_update_after_removal(p, h) ==
    IF ~is_dvr_serviced(The(h.port).device_owner)
    THEN HandlerDone(p, h)
    ELSE port_update_binding_changed(p, h)

\* remove_router_from_l3_agent has ended for the first record left: the loop
\* of _notify_port_delete goes on, and after the last record the callback
\* returns, to _notify_l3_agent_port_update if that called it.
removed_router_from_l3_agent(p) ==
    /\ CallEnded(p, "remove_router_from_l3_agent", "remove_router_from_l3_agent")
    /\ UNCHANGED <<routers, agents, ports, dvr_bindings, csnat, l3bindings>>
    /\ LET router == Head(Handler(p).removed_routers)
           h == [Handler(p) EXCEPT
                   !.removed_routers = Tail(@),
                   !.calls = Append(@, <<"remove_router_from_l3_agent",
                                         router.agent_id, router.router_id,
                                         "elevated">>)]
       IN  IF proc[p].raised # NoExc
           THEN proc' = HandlerRaised(p, h)
           ELSE IF h.removed_routers # <<>>
           THEN proc' = HandlerAt(p, h, "remove_router_from_l3_agent")
           ELSE IF h.name = "_notify_l3_agent_port_update"
           THEN proc' = port_update_after_removal(p, h)
           ELSE proc' = HandlerDone(p, h)

\* _notify_l3_agent_port_update up to its first call.
notify_l3_agent_port_update(p) ==
    /\ Handler(p).name = "_notify_l3_agent_port_update"
    /\ Handler(p).pc = "start"
    /\ UNCHANGED <<routers, agents, ports, dvr_bindings, csnat, l3bindings>>
    /\ LET h == Handler(p)
       IN  IF h.port = {} \/ h.original_port = {}
           THEN proc' = HandlerDone(p, h)
           ELSE LET new_port == The(h.port)
                    original_port == The(h.original_port)
                    is_port_no_longer_serviced ==
                        /\ is_dvr_serviced(original_port.device_owner)
                        /\ ~is_dvr_serviced(new_port.device_owner)
                    is_port_moved ==
                        /\ Truthy(original_port.host)
                        /\ original_port.host # new_port.host
                IN  IF is_port_no_longer_serviced \/ is_port_moved
                    THEN proc' = HandlerAt(p, h, "dvr_deletens_if_no_port")
                    ELSE proc' = port_update_binding_changed(p, h)

\* _notify_l3_agent_port_update: l3plugin.dvr_deletens_if_no_port(context,
\* original_port['id'], port_host=original_port[HOST_ID]).
port_update_dvr_deletens_if_no_port(p) ==
    /\ Handler(p).name = "_notify_l3_agent_port_update"
    /\ Handler(p).pc = "dvr_deletens_if_no_port"
    /\ LET original_port == The(Handler(p).original_port)
       IN  dvr_deletens_if_no_port(p, original_port.id, original_port.host)

\* _notify_l3_agent_port_update after dvr_deletens_if_no_port has returned:
\* with removal records _notify_port_delete is called for the original port.
port_update_removed_routers(p) ==
    /\ Handler(p).name = "_notify_l3_agent_port_update"
    /\ CallEnded(p, "dvr_deletens_if_no_port", "dvr_deletens_if_no_port")
    /\ UNCHANGED <<routers, agents, ports, dvr_bindings, csnat, l3bindings>>
    /\ LET original_port == The(Handler(p).original_port)
           removed_routers == proc[p].removed_router_info
           h == [Handler(p) EXCEPT
                   !.calls = Append(@, <<"dvr_deletens_if_no_port",
                                         original_port.id, original_port.host>>)]
       IN  IF proc[p].raised # NoExc
           THEN proc' = HandlerRaised(p, h)
           ELSE IF removed_routers # <<>>
           THEN proc' = HandlerAt(p,
                           port_delete_update_arp_entry(h, original_port,
                                                        removed_routers),
                           "remove_router_from_l3_agent")
           ELSE proc' = port_update_after_removal(p, h)

\* _notify_l3_agent_port_update: l3plugin.dvr_handle_new_service_port(context,
\* new_port).
port_update_dvr_handle_new_service_port(p) ==
    /\ Handler(p).name = "_notify_l3_agent_port_update"
    /\ Handler(p).pc = "dvr_handle_new_service_port"
    /\ dvr_handle_new_service_port(p, The(Handler(p).port))

\* _notify_l3_agent_port_update after dvr_handle_new_service_port has
\* returned: the ARP entry of the new port is added.
port_update_update_arp_entry(p) ==
    /\ Handler(p).name = "_notify_l3_agent_port_update"
    /\ CallEnded(p, "dvr_handle_new_service_port", "dvr_handle_new_service_port")
    /\ UNCHANGED <<routers, agents, ports, dvr_bindings, csnat, l3bindings>>
    /\ LET h == Handler(p)
           new_port == The(h.port)
       IN  proc' = HandlerDone(p,
                      [h EXCEPT !.calls = @ \o
                          << <<"dvr_handle_new_service_port", new_port.id>>,
                             update_arp_entry_for_dvr_service_port(new_port,
                                                                   "add") >>])

\* The callback of thread p has returned to the core plugin.
handler_returns(p) ==
    /\ Handler(p).pc = "done"
    /\ Return(p)

(***************************************************************************)
(* Specifications                                                          *)
(***************************************************************************)
\* No binding exists and no request runs; the inventory is one router of
\* routerSet, one of the agent tables, and the router's port tables or none.
InitWorld(routerSet, agentTables, withPorts) ==
    /\ \E r \in routerSet :
         /\ routers = {r}
         /\ ports \in (IF withPorts THEN PortSpace(r["id"]) ELSE {{}})
    /\ agents \in agentTables
    /\ dvr_bindings = {}
    /\ csnat = {}
    /\ l3bindings = {}
    /\ proc = [p \in Procs |-> Idle]

Init == InitWorld(RouterCatalog, {AgentCatalog}, TRUE)

\* The inventory ranges over every router shape and agent table of the
\* candidate filter.
InitCand == InitWorld(RouterSpace, AgentSpace, FALSE)

\* The steps of a schedule_snat_router request.
SchedNext(p) ==
    \/ \E router_id \in {r["id"] : r \in routers} :
          schedule_snat_router(p, router_id)
    \/ bind_dvr_router_servicenode(p)
    \/ bind_dvr_insert(p)

\* The agents_ids the callers of _unschedule_router pass: the agents the
\* router is bound to.
hosting_agents_ids(router_id) ==
    {b.l3_agent_id : b \in {x \in l3bindings : x.router_id = router_id}}

\* No finished call waits for its caller.
NoneDone == \A q \in Procs : proc[q].pc # "done"

RouterIds == {r["id"] : r \in routers}

AgentIds == {a.id : a \in agents}

\* Any thread takes a step of any request.  A finished call is handed to its
\* caller before another step is taken: the hand-over touches no shared state,
\* so every interleaving of the transactions is still there.
Next ==
    \E p \in Procs :
       \/ Return(p)
       \/ NoneDone /\ \E router_id \in RouterIds :
             schedule_snat_router(p, router_id)
       \/ NoneDone /\ bind_dvr_router_servicenode(p)
       \/ NoneDone /\ bind_dvr_insert(p)
       \/ NoneDone /\ \E router \in routers, agent \in agents :
             create_router_to_agent_binding(p, agent, router)
       \/ NoneDone /\ \E router_id \in RouterIds, agent_id \in AgentIds \cup {NoneVal} :
             unbind_snat(p, router_id, agent_id)
       \/ NoneDone /\ \E router_id \in RouterIds :
             unbind_snat_servicenode(p, router_id)
       \/ NoneDone /\ \E router_id \in RouterIds :
             unschedule_router(p, router_id, hosting_agents_ids(router_id))
       \/ NoneDone /\ \E router_id \in RouterIds, agent_id \in AgentIds :
             remove_router_from_l3_agent(p, agent_id, router_id)
       \/ NoneDone /\ remove_unbind_router_servicenode(p)

Spec == Init /\ [][Next]_vars

\* One request at a time, schedule_snat_router only.
SpecSeq == Init /\ [][SchedNext(1) \/ Return(1)]_vars

\* Concurrent schedule_snat_router requests, one per thread, on a store
\* without bindings.
SpecRace == Init /\ [][\E p \in Procs : SchedNext(p)]_vars

\* One request at a time over every router shape and agent table.
SpecCand == InitCand /\ [][SchedNext(1) \/ Return(1)]_vars

(***************************************************************************)
(* Port scenarios                                                          *)
(***************************************************************************)
\* The interface of a centralized router, and the gateway port of the
\* floating IP agent: neither is a DVR interface nor DVR serviced.
DEVICE_OWNER_ROUTER_INTF == "network:router_interface"

DEVICE_OWNER_AGENT_GW == "network:floatingip_agent_gateway"

\* The router interfaces of the port scenarios: R1 on S1, on S1 and S2 with
\* one port or two, beside R2 on S2, beside the centralized R3 on S2, and
\* with an interface port that has lost its fixed IPs.
InterfaceTables ==
    { {Port("IF1", DEVICE_OWNER_DVR_INTERFACE, "R1", "", <<"S1">>)},
      {Port("IF1", DEVICE_OWNER_DVR_INTERFACE, "R1", "", <<"S1", "S2">>)},
      {Port("IF1", DEVICE_OWNER_DVR_INTERFACE, "R1", "", <<"S1">>),
       Port("IF2", DEVICE_OWNER_DVR_INTERFACE, "R1", "", <<"S2">>)},
      {Port("IF1", DEVICE_OWNER_DVR_INTERFACE, "R1", "", <<"S1">>),
       Port("IF2", DEVICE_OWNER_DVR_INTERFACE, "R2", "", <<"S2">>)},
      {Port("IF1", DEVICE_OWNER_DVR_INTERFACE, "R1", "", <<"S1">>),
       Port("IF3", DEVICE_OWNER_ROUTER_INTF, "R3", "", <<"S2">>)},
      {Port("IF1", DEVICE_OWNER_DVR_INTERFACE, "R1", "", <<>>),
       Port("IF2", DEVICE_OWNER_DVR_INTERFACE, "R1", "", <<"S2">>)} }

\* The VM ports of the port scenarios: P1 on the compute node H3, on the host
\* H4 without an L3 agent or unbound, on S1, S2 or both; beside it no other
\* port, a second VM port on H3, or a port on H3 that is not DVR serviced.
VmTables ==
    LET first == { Port("P1", DEVICE_OWNER_COMPUTE, "vm1", h, ips) :
                      h \in {"H3", "H4", ""},
                      ips \in {<<"S1">>, <<"S2">>, <<"S1", "S2">>} }
        second == { {},
                    {Port("P2", DEVICE_OWNER_COMPUTE, "vm2", "H3", <<"S1">>)},
                    {Port("P2", DEVICE_OWNER_COMPUTE, "vm2", "H3", <<"S2">>)},
                    {Port("P2", DEVICE_OWNER_AGENT_GW, "A3", "H3", <<"S1">>)} }
    IN  { {a} \cup b : a \in first, b \in second }

\* The hosts on which the DVR interface ports are bound when a scenario starts.
BoundHosts == { {"H1", "H3", "H4"}, {"H1"} }

\* The port scenarios start with the three routers and agents of the
\* catalogs, one interface table, one VM table, the DVR interface ports bound
\* on the hosts of one of BoundHosts, and no router binding.
InitPorts ==
    /\ routers = RouterCatalog
    /\ agents = AgentCatalog
    /\ \E ifs \in InterfaceTables, vms \in VmTables, hosts \in BoundHosts :
         /\ ports = ifs \cup vms
         /\ dvr_bindings =
               {DvrBinding(q.id, h, q.device_id) :
                   q \in {x \in ifs : x.device_owner = DEVICE_OWNER_DVR_INTERFACE},
                   h \in hosts}
    /\ csnat = {}
    /\ l3bindings = {}
    /\ proc = [p \in Procs |-> Idle]

\* The ports the callers hand to the port operations.
ServicedPorts == {port \in ports : is_dvr_serviced(port.device_owner)}

\* The steps of the port operations.
PortsNext(p) ==
    \/ \E port \in ServicedPorts : dvr_handle_new_service_port(p, port)
    \/ for_router_id(p)
    \/ schedule_router(p)
    \/ \E port \in ServicedPorts, port_host \in {NoneVal, "H1", "H3"} :
          dvr_deletens_if_no_port(p, port.id, port_host)

\* One port operation at a time.
SpecPorts == InitPorts /\ [][PortsNext(1) \/ Return(1)]_vars

(***************************************************************************)
(* The scheduler API, one request at a time                                *)
(***************************************************************************)
\* The routers of the API scenarios: those of the catalog and a router
\* dictionary without the distributed key.
ApiRouters == RouterCatalog \cup {Router("R4", EmptyDict, Gateway("N1"))}

\* The port tables of the API scenarios for a router: its interface port has
\* a fixed IP on S1, or on S1 and S2; there is no VM port, or one on the
\* service node H1 on S1 or on S2.
ApiPortSpace(router_id) ==
    { {Port("IF1", DEVICE_OWNER_DVR_INTERFACE, router_id, "", ips)} \cup vm :
         ips \in {<<"S1">>, <<"S1", "S2">>},
         vm \in { {},
                  {Port("P1", DEVICE_OWNER_COMPUTE, "vm1", "H1", <<"S1">>)},
                  {Port("P1", DEVICE_OWNER_COMPUTE, "vm1", "H1", <<"S2">>)} } }

InitApi ==
    /\ \E r \in ApiRouters :
         /\ routers = {r}
         /\ ports \in ApiPortSpace(r["id"])
    /\ agents = AgentCatalog
    /\ dvr_bindings = {}
    /\ csnat = {}
    /\ l3bindings = {}
    /\ proc = [p \in Procs |-> Idle]

\* The steps of the requests of the scheduler API.
ApiNext(p) ==
    \/ \E router_id \in RouterIds : schedule_snat_router(p, router_id)
    \/ bind_dvr_router_servicenode(p)
    \/ bind_dvr_insert(p)
    \/ \E router \in routers, agent \in agents :
          create_router_to_agent_binding(p, agent, router)
    \/ \E router \in routers, agent \in agents :
          check_agent_router_scheduling_needed(p, agent, router)
    \/ \E router_id \in RouterIds, agent_id \in AgentIds \cup {NoneVal} :
          unbind_snat(p, router_id, agent_id)
    \/ \E router_id \in RouterIds : unbind_snat_servicenode(p, router_id)
    \/ \E router_id \in RouterIds :
          unschedule_router(p, router_id, hosting_agents_ids(router_id))
    \/ \E router_id \in RouterIds, agent_id \in AgentIds :
          remove_router_from_l3_agent(p, agent_id, router_id)
    \/ remove_unbind_router_servicenode(p)

\* One request of the scheduler API at a time.
SpecApi == InitApi /\ [][ApiNext(1) \/ Return(1)]_vars

(***************************************************************************)
(* Port events                                                             *)
(***************************************************************************)
\* The router interfaces of the port events: R1 on S1, R1 on S1 and S2 with
\* one interface port, and R1 on S1 beside R2 on S2.
EventInterfaces ==
    { {Port("IF1", DEVICE_OWNER_DVR_INTERFACE, "R1", "", <<"S1">>)},
      {Port("IF1", DEVICE_OWNER_DVR_INTERFACE, "R1", "", <<"S1", "S2">>)},
      {Port("IF1", DEVICE_OWNER_DVR_INTERFACE, "R1", "", <<"S1">>),
       Port("IF2", DEVICE_OWNER_DVR_INTERFACE, "R2", "", <<"S2">>)} }

\* The port the events are about, in every shape it takes: on the SNAT node
\* H1, the compute node H3, the host H4 without an L3 agent or unbound; a VM
\* port or a port that is not DVR serviced; on S1, on S2 or on both.
EventPorts ==
    { Port("P1", owner, "vm1", h, ips) :
         owner \in {DEVICE_OWNER_COMPUTE, DEVICE_OWNER_AGENT_GW},
         h \in {"H1", "H3", "H4", ""},
         ips \in {<<"S1">>, <<"S2">>, <<"S1", "S2">>} }

\* The other VM port, on the compute node H3, if there is one.
OtherPorts ==
    { {}, {Port("P2", DEVICE_OWNER_COMPUTE, "vm2", "H3", <<"S1">>)} }

\* The port events start without the port they are about, with one interface
\* table, the DVR interface ports bound on H3, and with R1 either
\* unscheduled or scheduled on the SNAT agent A1.
InitEvents ==
    /\ routers = RouterCatalog
    /\ agents = AgentCatalog
    /\ \E ifs \in EventInterfaces, others \in OtherPorts :
         /\ ports = ifs \cup others
         /\ dvr_bindings =
               {DvrBinding(q.id, "H3", q.device_id) : q \in ifs}
    /\ \E scheduled \in SUBSET {BindingRow("R1", "A1")} :
         /\ csnat = scheduled
         /\ l3bindings = scheduled
    /\ proc = [p \in Procs |-> Idle]

\* The core plugin has created a port and notifies AFTER_CREATE; a notifier
\* may leave the port out.
after_create(p, port) ==
    /\ proc[p] = Idle
    /\ \A q \in port : \A other \in ports : other.id # q.id
    /\ ports' = ports \cup port
    /\ proc' = [proc EXCEPT ![p].handler =
                   << Event("_notify_l3_agent_new_port", port, {}, <<>>, FALSE) >>]
    /\ UNCHANGED <<routers, agents, dvr_bindings, csnat, l3bindings>>

\* The core plugin starts to delete a port: for a DVR serviced port it first
\* asks dvr_deletens_if_no_port for the removal records.
delete_port(p, port) ==
    /\ proc[p] = Idle
    /\ port \in ports
    /\ UNCHANGED <<routers, agents, ports, dvr_bindings, csnat, l3bindings>>
    /\ proc' = [proc EXCEPT ![p].handler =
                   << [Event("delete_port", {port}, {}, <<>>, FALSE)
                         EXCEPT !.pc = IF is_dvr_serviced(port.device_owner)
                                       THEN "dvr_deletens_if_no_port"
                                       ELSE "delete"] >>]

\* delete_port: l3plugin.dvr_deletens_if_no_port(context, id).
delete_port_dvr_deletens_if_no_port(p) ==
    /\ Handler(p).name = "delete_port"
    /\ Handler(p).pc = "dvr_deletens_if_no_port"
    /\ dvr_deletens_if_no_port(p, The(Handler(p).port).id, NoneVal)

\* delete_port deletes the port and notifies AFTER_DELETE with the port and
\* the removal records; an exception of dvr_deletens_if_no_port ends it.
after_delete(p) ==
    /\ Handler(p).name = "delete_port"
    /\ \/ Handler(p).pc = "delete"
       \/ CallEnded(p, "dvr_deletens_if_no_port", "dvr_deletens_if_no_port")
    /\ UNCHANGED <<routers, agents, dvr_bindings, csnat, l3bindings>>
    /\ IF proc[p].raised # NoExc
       THEN /\ UNCHANGED ports
            /\ proc' = HandlerRaised(p, Handler(p))
       ELSE /\ ports' = ports \ Handler(p).port
            /\ proc' = [proc EXCEPT ![p] =
                  [Idle EXCEPT !.handler =
                      << Event("_notify_port_delete", Handler(p).port, {},
                               proc[p].removed_router_info, FALSE) >>]]

\* The core plugin has updated a port and notifies AFTER_UPDATE with the port
\* as it is and as it was; a notifier may leave the original port out.
after_update(p, original_port, port, mac_address_updated, original_kw) ==
    /\ proc[p] = Idle
    /\ original_port \in ports
    /\ port.id = original_port.id
    /\ original_kw \in {{}, {original_port}}
    /\ ports' = (ports \ {original_port}) \cup {port}
    /\ proc' = [proc EXCEPT ![p].handler =
                   << Event("_notify_l3_agent_port_update", {port}, original_kw,
                            <<>>, mac_address_updated) >>]
    /\ UNCHANGED <<routers, agents, dvr_bindings, csnat, l3bindings>>

\* The steps of the port events and of the callbacks they run.
EventsNext(p) ==
    \/ \E port \in {{}} \cup {{q} : q \in EventPorts} : after_create(p, port)
    \/ notify_l3_agent_new_port(p)
    \/ new_port_dvr_handle_new_service_port(p)
    \/ new_port_update_arp_entry(p)
    \/ for_router_id(p)
    \/ schedule_router(p)
    \/ \E port \in ports \cap EventPorts : delete_port(p, port)
    \/ delete_port_dvr_deletens_if_no_port(p)
    \/ after_delete(p)
    \/ notify_port_delete(p)
    \/ for_router_in_removed_routers(p)
    \/ remove_unbind_router_servicenode(p)
    \/ removed_router_from_l3_agent(p)
    \/ \E original_port \in ports \cap EventPorts, port \in EventPorts,
          mac_address_updated \in BOOLEAN :
          /\ port.fixed_ips = original_port.fixed_ips
          /\ \E original_kw \in {{original_port}} \cup
                                  (IF port = original_port THEN {{}} ELSE {}) :
                after_update(p, original_port, port, mac_address_updated,
                             original_kw)
    \/ notify_l3_agent_port_update(p)
    \/ port_update_dvr_deletens_if_no_port(p)
    \/ port_update_removed_routers(p)
    \/ port_update_dvr_handle_new_service_port(p)
    \/ port_update_update_arp_entry(p)
    \/ handler_returns(p)

\* One port event at a time.
SpecEvents == InitEvents /\ [][EventsNext(1)]_vars

(***************************************************************************)
(* Concurrent port flows                                                   *)
(***************************************************************************)
\* The threads of the concurrent port flows, and the port of each: thread 1
\* works on P1, thread 2 on P2.
RaceProcs == {p \in Procs : p <= 2}

RacePortIds == <<"P1", "P2">>

\* The two VM ports of the concurrent flows: on the compute node H3 or on the
\* SNAT node H1, on S1 or S2.
RacePorts ==
    { {Port("P1", DEVICE_OWNER_COMPUTE, "vm1", h1, <<"S1">>),
       Port("P2", DEVICE_OWNER_COMPUTE, "vm2", h2, ips)} :
         h1 \in {"H1", "H3"}, h2 \in {"H1", "H3"},
         ips \in {<<"S1">>, <<"S2">>} }

\* The rows dvr_handle_new_service_port has created when it has run for
\* every VM port of the table.
RowsOfPorts(vms) ==
    UNION { {BindingRow(router_id, a.id) :
                router_id \in routers_of_fixed_ips(q.fixed_ips),
                a \in get_l3_agents_on_host(q.host)} : q \in vms }

\* The concurrent flows start with one interface table and both VM ports,
\* the DVR interface ports bound on H1 and H3, R1 either unscheduled or
\* scheduled on the SNAT agent A1, and the routers of the VM ports either
\* not yet bound to the agents of the ports' hosts or, when
\* dvr_handle_new_service_port has run for both ports, bound to all of them.
InitPortRace(bound) ==
    /\ routers = RouterCatalog
    /\ agents = AgentCatalog
    /\ \E ifs \in EventInterfaces, vms \in RacePorts,
          scheduled \in SUBSET {BindingRow("R1", "A1")} :
         /\ ports = ifs \cup vms
         /\ dvr_bindings =
               {DvrBinding(q.id, h, q.device_id) : q \in ifs, h \in {"H1", "H3"}}
         /\ csnat = scheduled
         /\ l3bindings =
               scheduled \cup (IF bound THEN RowsOfPorts(vms) ELSE {})
    /\ proc = [p \in Procs |-> Idle]

\* The port of thread p, while it exists.
RacePort(p) == {q \in ports : q.id = RacePortIds[p]}

\* The steps of concurrent dvr_handle_new_service_port calls, each thread for
\* its port.
NewPortRaceNext ==
    \/ \E p \in RaceProcs : \E port \in RacePort(p) :
          dvr_handle_new_service_port(p, port)
    \/ \E p \in RaceProcs : for_router_id(p)
    \/ \E p \in RaceProcs : schedule_router(p)
    \/ \E p \in RaceProcs : Return(p)

\* No router is bound to the agents of the ports' hosts at the start.
InitNewPortRace == InitPortRace(FALSE)

\* Two threads call dvr_handle_new_service_port, each for its port.
SpecNewPortRace == InitNewPortRace /\ [][NewPortRaceNext]_vars

\* The steps of concurrent port-removal flows, each thread for its port:
\* delete_port with dvr_deletens_if_no_port, the deletion, and the port
\* deleted callback with its remove_router_from_l3_agent calls.
RemovalRaceNext ==
    \/ \E p \in RaceProcs : \E port \in RacePort(p) : delete_port(p, port)
    \/ \E p \in RaceProcs : delete_port_dvr_deletens_if_no_port(p)
    \/ \E p \in RaceProcs : after_delete(p)
    \/ \E p \in RaceProcs : notify_port_delete(p)
    \/ \E p \in RaceProcs : for_router_in_removed_routers(p)
    \/ \E p \in RaceProcs : remove_unbind_router_servicenode(p)
    \/ \E p \in RaceProcs : removed_router_from_l3_agent(p)
    \/ \E p \in RaceProcs : handler_returns(p)

\* The routers of the ports are bound to the agents of the ports' hosts at
\* the start.
InitRemovalRace == InitPortRace(TRUE)

\* Two threads remove their ports.
SpecRemovalRace == InitRemovalRace /\ [][RemovalRaceNext]_vars

(***************************************************************************)
(* Round trips of a port                                                   *)
(***************************************************************************)
\* The round trips start with one interface table and no VM port, the DVR
\* interface ports bound on H3, and R1 either unscheduled or scheduled on the
\* SNAT agent A1: every RouterL3AgentBinding is the companion of a SNAT
\* binding.
InitRoundTrip ==
    /\ routers = RouterCatalog
    /\ agents = AgentCatalog
    /\ \E ifs \in EventInterfaces :
         /\ ports = ifs
         /\ dvr_bindings = {DvrBinding(q.id, "H3", q.device_id) : q \in ifs}
    /\ \E scheduled \in SUBSET {BindingRow("R1", "A1")} :
         /\ csnat = scheduled
         /\ l3bindings = scheduled
    /\ proc = [p \in Procs |-> Idle]

\* The agent of the host holds no SNAT binding.
NoSnatOnHost(host) ==
    \A a \in get_l3_agents_on_host(host), b \in csnat : b.l3_agent_id # a.id

\* The steps of a round trip of the port P1: it is created on a host whose
\* agent holds no SNAT binding, the port created callback runs, and then the
\* port is deleted (dvr_deletens_if_no_port, the deletion, the port deleted
\* callback with the removal records).
RoundTripNext(p) ==
    \/ \E port \in EventPorts :
          NoSnatOnHost(port.host) /\ after_create(p, {port})
    \/ notify_l3_agent_new_port(p)
    \/ new_port_dvr_handle_new_service_port(p)
    \/ for_router_id(p)
    \/ schedule_router(p)
    \/ new_port_update_arp_entry(p)
    \/ \E port \in ports \cap EventPorts : delete_port(p, port)
    \/ delete_port_dvr_deletens_if_no_port(p)
    \/ after_delete(p)
    \/ notify_port_delete(p)
    \/ for_router_in_removed_routers(p)
    \/ removed_router_from_l3_agent(p)
    \/ handler_returns(p)

\* One round trip after the other.
SpecRoundTrip == InitRoundTrip /\ [][RoundTripNext(1)]_vars

(***************************************************************************)
(* Properties                                                              *)
(***************************************************************************)
IsDistributed(router) == Get(router, "distributed", FALSE)

HasGateway(router) == DOMAIN router["external_gateway_info"] # {}

\* The SNAT bindings of a router.
SnatRows(router_id) == {b \in csnat : b.router_id = router_id}

\* The ids of the agents get_snat_candidates returns for the active agents.
CandidateIds(router) ==
    UNION { {a.id : a \in Range(get_snat_candidates(router, l3_agents))} :
              l3_agents \in get_l3_agents_active }

\* Thread p has returned from a call of `op` without an exception.
Completed(p, op) ==
    /\ proc[p].op = op
    /\ proc[p].pc = "done"
    /\ proc[p].raised = NoExc

\* C1: for a distributed router with a gateway and candidates, every
\* schedule_snat_router call that has returned, the first and each one after
\* it, leaves exactly one CentralizedSnatL3AgentBinding row for the router.
C1_ScheduleLeavesOneBinding ==
    \A r \in routers :
       (/\ IsDistributed(r)
        /\ HasGateway(r)
        /\ CandidateIds(r) # {}
        /\ Completed(1, "schedule_snat_router"))
       => Cardinality(SnatRows(r["id"])) = 1

\* C2: when the concurrent schedule_snat_router calls on a distributed router
\* with a gateway have all completed (no store failure), exactly one SNAT
\* binding exists for the router, no call raised, and exactly one call, the
\* winner, returned an agent; the others returned None.
C2_RaceLeavesOneBinding ==
    \A r \in routers :
       (/\ IsDistributed(r)
        /\ HasGateway(r)
        /\ \A p \in Procs : /\ proc[p].op = "schedule_snat_router"
                            /\ proc[p].pc = "done"
                            /\ proc[p].raised.exc # "DBError")
       => /\ Cardinality(SnatRows(r["id"])) = 1
          /\ \A p \in Procs : proc[p].raised = NoExc
          /\ Cardinality({p \in Procs : proc[p].result # NoneVal}) = 1

\* C3: in every reachable state each router has at most one
\* CentralizedSnatL3AgentBinding row.
C3_AtMostOneSnatBinding ==
    \A r \in routers : Cardinality(SnatRows(r["id"])) <= 1

\* The exclusions of get_snat_candidates, as the specification lists them.
Excluded(router, agent) ==
    LET conf == agent.configurations
        fixed_router == Get(conf, "router_id", NoneVal)
        fixed_network == Get(conf, "gateway_external_network_id", NoneVal)
    IN  \/ ~agent.admin_state_up
        \/ Get(conf, L3_AGENT_MODE, L3_AGENT_MODE_LEGACY) # L3_AGENT_MODE_DVR_SNAT
        \/ (Truthy(fixed_router) /\ fixed_router # router["id"])
        \/ (/\ HasGateway(router)
            /\ Truthy(fixed_network)
            /\ fixed_network # router["external_gateway_info"]["network_id"])
        \/ (/\ ~HasGateway(router)
            /\ Get(conf, "handle_internal_only_routers", TRUE) = FALSE)

\* C4: for a distributed router and any list of agents, get_snat_candidates
\* returns exactly the agents of the list that are admin-up, in dvr_snat mode,
\* not pinned to another router, not pinned to another gateway network, and
\* not refusing internal-only routers when the router has no gateway.
C4_CandidatesAreTheAdmittedAgents ==
    \A r \in routers :
       IsDistributed(r) =>
          \A S \in SUBSET agents : \A l3_agents \in Orderings(S) :
             Range(get_snat_candidates(r, l3_agents)) =
                {a \in S : ~Excluded(r, a)}

\* Reached: schedule_snat_router bound the admitted agent A1 of a table that
\* also holds an excluded agent.
C4_Witness ==
    /\ Completed(1, "schedule_snat_router")
    /\ proc[1].result = "A1"
    /\ \E r \in routers, a \in agents : a.id = "A2" /\ Excluded(r, a)

\* A schedule_snat_router call of thread p begins in this step.
ScheduleCalled(p) ==
    /\ proc[p].op = "idle"
    /\ proc'[p].op = "schedule_snat_router"

\* C5: get_snat_candidates is empty for a non-distributed router whatever the
\* agents; and a schedule_snat_router call on a non-distributed router, or on
\* any router without active agents or without candidates, returns None in
\* that step and inserts no row in either binding table.
C5_NoCandidateNoMutation ==
    /\ [](\A r \in routers :
             ~IsDistributed(r) =>
                \A S \in SUBSET agents : \A l3_agents \in Orderings(S) :
                   get_snat_candidates(r, l3_agents) = <<>>)
    /\ [][\A p \in Procs, r \in routers :
             (/\ ScheduleCalled(p)
              /\ proc'[p].router_id = r["id"]
              /\ \/ ~IsDistributed(r)
                 \/ {a \in agents : a.is_active} = {}
                 \/ CandidateIds(r) = {})
             => /\ csnat' = csnat
                /\ l3bindings' = l3bindings
                /\ proc'[p].pc = "done"
                /\ proc'[p].result = NoneVal
                /\ proc'[p].raised = NoExc]_vars

\* Reached: schedule_snat_router returned None on a distributed router whose
\* active agents hold no candidate, and no binding exists.
C5_Witness ==
    /\ Completed(1, "schedule_snat_router")
    /\ proc[1].result = NoneVal
    /\ csnat = {} /\ l3bindings = {}
    /\ \E r \in routers :
          /\ IsDistributed(r)
          /\ {a \in agents : a.is_active} # {}
          /\ CandidateIds(r) = {}

\* C6: every SNAT binding a step of schedule_snat_router creates is for the
\* router of the call and targets a member of get_snat_candidates over the
\* active agents, which is an agent in dvr_snat mode, never a dvr agent.
C6_BoundAgentIsCandidate ==
    [][\A p \in Procs :
          (proc'[p].op = "schedule_snat_router" /\ proc'[p] # proc[p])
          => \A b \in csnat' \ csnat :
                /\ b.router_id = proc'[p].router_id
                /\ b.l3_agent_id \in CandidateIds(get_router(b.router_id))
                /\ agent_mode_of(AgentById(b.l3_agent_id).configurations)
                      = L3_AGENT_MODE_DVR_SNAT]_vars

\* Reached: with A1 in dvr_snat mode and A2 in dvr mode, schedule_snat_router
\* bound A1.
C6_Witness ==
    /\ Completed(1, "schedule_snat_router")
    /\ proc[1].result = "A1"
    /\ csnat = {BindingRow(proc[1].router_id, "A1")}
    /\ \E a \in agents :
          /\ a.id = "A2"
          /\ a.admin_state_up
          /\ agent_mode_of(a.configurations) = L3_AGENT_MODE_DVR

\* C7: in every reachable state a router that is not distributed has no
\* CentralizedSnatL3AgentBinding row.
C7_NoSnatBindingIfNotDistributed ==
    \A r \in routers : ~IsDistributed(r) => SnatRows(r["id"]) = {}

\* Reached: on a router that is not distributed a manual bind has created its
\* generic binding and a schedule_snat_router call has returned.
C7_Witness ==
    /\ \E r \in routers : ~IsDistributed(r) /\ HasGateway(r)
    /\ l3bindings # {}
    /\ \E p \in Procs : Completed(p, "schedule_snat_router")

\* C8: in every reachable state a distributed router has a
\* CentralizedSnatL3AgentBinding row only if it has an external gateway.
C8_SnatBindingOnlyWithGateway ==
    \A r \in routers :
       (IsDistributed(r) /\ SnatRows(r["id"]) # {}) => HasGateway(r)

\* C9: in every reachable state every CentralizedSnatL3AgentBinding row
\* targets an agent in dvr_snat mode.
C9_SnatBindingTargetsDvrSnatAgent ==
    \A b \in csnat :
       agent_mode_of(AgentById(b.l3_agent_id).configurations)
          = L3_AGENT_MODE_DVR_SNAT

\* C10: in every state another request can observe, and after every failure,
\* each committed CentralizedSnatL3AgentBinding(R, A) has its
\* RouterL3AgentBinding(R, A): the two rows change as one atomic unit.
C10_SnatAndHostBindingAtomic ==
    \A b \in csnat : b \in l3bindings

\* The longest list of fixed IPs handed to get_dvr_routers_by_portid.
MaxFixedIps == 2

\* The lists of fixed IPs over the subnets S1, S2 and the unattached S3.
FixedIpLists ==
    UNION { [1..n -> {[subnet_id |-> x] : x \in {"S1", "S2", "S3"}}] :
               n \in 0..MaxFixedIps }

\* The device ids of the DVR interface ports that have a fixed IP on a subnet
\* of one of the fixed IPs.
RoutersSharingSubnet(fixed_ips) ==
    {q.device_id :
        q \in {x \in ports :
                 /\ x.device_owner = DEVICE_OWNER_DVR_INTERFACE
                 /\ \E i \in 1..Len(x.fixed_ips), j \in 1..Len(fixed_ips) :
                       x.fixed_ips[i].subnet_id = fixed_ips[j].subnet_id}}

\* C11: get_dvr_routers_by_portid returns exactly the device ids of the DVR
\* interface ports with a fixed IP on a subnet of the given fixed IPs (those
\* of the port when none are given), each id once; the routers a
\* dvr_handle_new_service_port call works on are that set.
C11_RoutersOfPortAreThoseSharingASubnet ==
    /\ \A fixed_ips \in FixedIpLists :
          get_dvr_routers_by_portid(NoneVal, {fixed_ips})
             = RoutersSharingSubnet(fixed_ips)
    /\ \A port \in ports :
          get_dvr_routers_by_portid(port.id, {})
             = RoutersSharingSubnet(port.fixed_ips)
    /\ \A p \in Procs :
          (proc[p].op = "dvr_handle_new_service_port"
              /\ proc[p].pc = "for_router_id")
          => proc[p].router_ids
                = RoutersSharingSubnet(get_port(proc[p].port_id).fixed_ips)

\* Reached: dvr_handle_new_service_port has notified the host of a port with
\* fixed IPs on S1 and S2 about router R1 alone, R1 having a DVR interface
\* port on each of the two subnets.
C11_Witness ==
    /\ Completed(1, "dvr_handle_new_service_port")
    /\ proc[1].sent = << <<"routers_updated_on_host", {"R1"}, "H3">> >>
    /\ Len(get_port(proc[1].port_id).fixed_ips) = 2
    /\ Cardinality(int_ports("R1")) = 2

\* The subnets a router is attached to: the subnet of every fixed IP of every
\* port of the router.
AttachedSubnets(router_id) ==
    UNION {subnets_of(q) : q \in {x \in ports : x.device_id = router_id}}

\* A DVR serviced port other than port_id is bound to the host on one of the
\* router's attached subnets.
OtherServicedPort(router_id, host, port_id) ==
    \E q \in ports :
       /\ q.id # port_id
       /\ q.host = host
       /\ is_dvr_serviced(q.device_owner)
       /\ subnets_of(q) \cap AttachedSubnets(router_id) # {}

\* The positions of the removal records of a call for a router on a host.
RecordsFor(p, router_id, host) ==
    {i \in 1..Len(proc[p].removed_router_info) :
        /\ proc[p].removed_router_info[i].router_id = router_id
        /\ proc[p].removed_router_info[i].host = host}

\* C12: when dvr_deletens_if_no_port has returned for a port and a resolved
\* host, then for every router of the port's subnets its list holds no
\* removal record of the router on the host if another DVR serviced port is
\* bound to the host on one of the router's attached subnets, and exactly one
\* if there is none.
C12_RemovalRecordIffNoOtherPort ==
    \A p \in Procs :
       (Completed(p, "dvr_deletens_if_no_port") /\ Truthy(proc[p].host))
       => \A router_id \in
                RoutersSharingSubnet(get_port(proc[p].port_id).fixed_ips) :
             Cardinality(RecordsFor(p, router_id, proc[p].host))
                = IF OtherServicedPort(router_id, proc[p].host, proc[p].port_id)
                  THEN 0 ELSE 1

\* A dvr_deletens_if_no_port call of thread p runs and returns in this step.
DeletensReturns(p) ==
    /\ proc[p].op = "idle"
    /\ proc'[p].op = "dvr_deletens_if_no_port"
    /\ proc'[p].raised = NoExc

\* The (port, host) pairs that have a DVR port binding.
BoundPairs(bindings) == {<<b.port_id, b.host>> : b \in bindings}

\* C13: every removal record dvr_deletens_if_no_port returns for a router on
\* the host H of the call is {the router, H, the id of the L3 agent on H}, and
\* the binding for H of each DVR interface port of that router has its
\* router_id unset; no port and no DVR port binding is deleted, the bindings
\* for other hosts are unchanged, and neither binding table changes.
C13_RemovalRecordAndUnboundInterface ==
    [][\A p \in Procs :
          DeletensReturns(p) =>
             LET info == proc'[p].removed_router_info
                 host == proc'[p].host
             IN  /\ ports' = ports
                 /\ csnat' = csnat
                 /\ l3bindings' = l3bindings
                 /\ BoundPairs(dvr_bindings') = BoundPairs(dvr_bindings)
                 /\ \A b \in dvr_bindings : b.host # host => b \in dvr_bindings'
                 /\ \A i \in 1..Len(info) :
                       /\ info[i].host = host
                       /\ info[i].router_id \in proc'[p].router_ids
                       /\ {info[i].agent_id} = {a.id : a \in {x \in agents : x.host = host}}
                       /\ \A q \in ports, b \in dvr_bindings' :
                             (/\ q.device_id = info[i].router_id
                              /\ q.device_owner = DEVICE_OWNER_DVR_INTERFACE
                              /\ b.port_id = q.id
                              /\ b.host = host)
                             => b.router_id = NoneVal]_vars

\* Reached: dvr_deletens_if_no_port returned the record {R1, H3, A3}; the
\* binding of R1's interface port IF1 is unset for H3 and still names R1 for
\* H1.
C13_Witness ==
    /\ Completed(1, "dvr_deletens_if_no_port")
    /\ proc[1].removed_router_info
          = << [router_id |-> "R1", host |-> "H3", agent_id |-> "A3"] >>
    /\ DvrBinding("IF1", "H3", NoneVal) \in dvr_bindings
    /\ DvrBinding("IF1", "H1", "R1") \in dvr_bindings

\* A call of `op` by thread p runs and returns without an exception in this
\* step.
CallReturns(p, op) ==
    /\ proc[p].op = "idle"
    /\ proc'[p].op = op
    /\ proc'[p].pc = "done"
    /\ proc'[p].raised = NoExc

\* A DVR serviced port is bound to the host on one of the router's attached
\* subnets.
ServicedPortOnHost(router_id, host) ==
    \E q \in ports :
       /\ q.host = host
       /\ is_dvr_serviced(q.device_owner)
       /\ subnets_of(q) \cap AttachedSubnets(router_id) # {}

\* C14: when unbind_snat_servicenode(R) has completed, R has no
\* CentralizedSnatL3AgentBinding; and the RouterL3AgentBinding of R to its
\* former SNAT agent is gone if no DVR serviced port is bound to that agent's
\* host on one of R's attached subnets, and kept if there is such a port.
C14_UnbindSnatServicenodeOutcome ==
    [][\A p \in Procs :
          CallReturns(p, "unbind_snat_servicenode") =>
             LET router_id == proc'[p].router_id
                 binding == proc'[p].binding
                 row == BindingRow(router_id, binding.l3_agent_id)
             IN  /\ {b \in csnat' : b.router_id = router_id} = {}
                 /\ binding # NoBinding =>
                       IF ServicedPortOnHost(router_id,
                                             AgentById(binding.l3_agent_id).host)
                       THEN row \in l3bindings => row \in l3bindings'
                       ELSE row \notin l3bindings']_vars

\* The ids of the L3 agents on a host.
AgentIdsOnHost(host) == {a.id : a \in {x \in agents : x.host = host}}

\* C15: in a dvr_handle_new_service_port call for a port on a host with an
\* L3 agent, every router of the port's subnets that is not bound to that
\* agent is scheduled once, which creates exactly its RouterL3AgentBinding to
\* that agent, and nothing else changes a binding; the call ends with exactly
\* one routers_updated_on_host notification, for the port's host and with the
\* ids of those routers, all of them then bound to the agent.  For a port
\* whose subnet is attached only to R that is one binding (R, agent(H)) and
\* one notification containing R.
C15_NewServicePortBindsAndNotifiesOnce ==
    [][\A p \in Procs :
          (proc'[p].op = "dvr_handle_new_service_port" /\ proc'[p] # proc[p])
          => LET port == get_port(proc'[p].port_id)
                 touched == RoutersSharingSubnet(port.fixed_ips)
                 row == BindingRow(proc[p].router_id, proc[p].agent_id)
             IN  /\ proc[p].op = proc'[p].op => proc'[p].todo \subseteq proc[p].todo
                 /\ IF proc[p].pc = "schedule_router"
                    THEN /\ row \notin l3bindings
                         /\ l3bindings' = l3bindings \cup {row}
                         /\ proc[p].router_id \in proc[p].todo \cap touched
                         /\ proc[p].router_id \notin proc'[p].todo
                         /\ proc[p].agent_id \in AgentIdsOnHost(port.host)
                    ELSE l3bindings' = l3bindings
                 /\ IF proc'[p].pc = "done" /\ AgentIdsOnHost(port.host) # {}
                    THEN /\ proc'[p].sent =
                               << <<"routers_updated_on_host", touched, port.host>> >>
                         /\ \A router_id \in touched :
                               \E agent_id \in AgentIdsOnHost(port.host) :
                                  BindingRow(router_id, agent_id) \in l3bindings'
                    ELSE proc'[p].sent = <<>>]_vars

\* Reached: dvr_handle_new_service_port for P1 on H3, whose subnet is attached
\* to R1 only, has bound R1 to the agent A3 of H3, the only binding there is,
\* and has sent one notification for H3 with R1.
C15_Witness ==
    /\ Completed(1, "dvr_handle_new_service_port")
    /\ proc[1].port_id = "P1"
    /\ RoutersSharingSubnet(get_port("P1").fixed_ips) = {"R1"}
    /\ l3bindings = {BindingRow("R1", "A3")}
    /\ proc[1].sent = << <<"routers_updated_on_host", {"R1"}, "H3">> >>

\* C16: when schedule_snat_router ends with a persistence failure other than
\* the duplicate SNAT binding, the caller receives RouterSchedulingFailed
\* with the router id and the agent id, and neither binding row of the call
\* persists.
C16_ScheduleFailureAbortsAndIsSchedulingFailed ==
    \A p \in Procs :
       (/\ proc[p].op = "schedule_snat_router"
        /\ proc[p].pc = "done"
        /\ proc[p].raised # NoExc)
       => /\ proc[p].raised.exc = "RouterSchedulingFailed"
          /\ proc[p].raised.router_id = proc[p].router_id
          /\ proc[p].raised.agent_id # NoneVal
          /\ BindingRow(proc[p].router_id, proc[p].chosen) \notin csnat
          /\ BindingRow(proc[p].router_id, proc[p].chosen) \notin l3bindings

\* C17: in create_router_to_agent_binding for a distributed router with a
\* gateway every exception the caller receives is RouterSchedulingFailed with
\* the router id and the agent id; a bind of a router that already has the
\* SNAT binding to the agent fails with it (the duplicate entry is not
\* swallowed); and the call returns normally only with both rows in place.
C17_ManualBindSurfacesEveryFailure ==
    [][\A p \in Procs :
          (/\ proc'[p].op = "create_router_to_agent_binding"
           /\ proc'[p] # proc[p]
           /\ IsDistributed(get_router(proc'[p].router_id))
           /\ HasGateway(get_router(proc'[p].router_id)))
          => LET row == BindingRow(proc'[p].router_id, proc'[p].agent_id)
                 failed == Exc("RouterSchedulingFailed",
                               proc'[p].router_id, proc'[p].agent_id)
             IN  /\ proc'[p].raised \in {NoExc, failed}
                 /\ (proc[p].op = "idle" /\ row \in csnat)
                       => (proc'[p].raised = failed /\ csnat' = csnat)
                 /\ (proc[p].op = "idle" /\ proc'[p].raised = NoExc)
                       => (row \in csnat' /\ proc'[p].pc # "done")
                 /\ (proc'[p].pc = "done" /\ proc'[p].raised = NoExc)
                       => (row \in csnat' /\ row \in l3bindings')]_vars

\* Reached: a manual bind of R1 to A1, which already holds R1's SNAT binding,
\* ended with RouterSchedulingFailed(R1, A1) at the first insert.
C17_Witness ==
    /\ proc[1].op = "create_router_to_agent_binding"
    /\ proc[1].pc = "done"
    /\ proc[1].chosen = NoneVal
    /\ proc[1].raised = Exc("RouterSchedulingFailed", "R1", "A1")
    /\ BindingRow("R1", "A1") \in csnat

\* C18: for a distributed router check_agent_router_scheduling_needed answers
\* true exactly when the router has an external gateway and get_snat_bindings
\* finds no SNAT binding of it, so always false without a gateway, whatever
\* the agent and the bindings; for a router that is not distributed it
\* answers what the inherited check answers.
C18_SchedulingNeededIffGatewayAndNoSnat ==
    /\ \A router \in routers, agent \in agents, generic \in BOOLEAN :
          scheduling_needed(agent, router, generic)
             = IF IsDistributed(router)
               THEN HasGateway(router) /\ SnatRows(router["id"]) = {}
               ELSE generic
    /\ \A p \in Procs :
          proc[p].op = "check_agent_router_scheduling_needed"
          => LET router == get_router(proc[p].router_id)
             IN  IsDistributed(router)
                    => proc[p].needed
                          = (HasGateway(router) /\ SnatRows(router["id"]) = {})

\* Reached: the check answered "not needed" for the distributed router R1,
\* which has a gateway and a SNAT binding.
C18_Witness ==
    /\ Completed(1, "check_agent_router_scheduling_needed")
    /\ proc[1].router_id = "R1"
    /\ ~proc[1].needed
    /\ SnatRows("R1") # {}

\* C19: a _unschedule_router call on a distributed router deletes no
\* RouterL3AgentBinding but, at most, the one of the router to the agent of
\* the SNAT binding it released, and leaves the bindings of other routers and
\* every SNAT binding of other routers alone: the inherited unscheduling,
\* which deletes the bindings to all the agents given, does not run.  On a
\* router that is not distributed exactly those bindings are deleted and no
\* SNAT binding changes.
C19_UnscheduleReleasesOnlySnat ==
    [][\A p \in Procs :
          (proc[p].op = "idle" /\ proc'[p].op = "_unschedule_router")
          => LET router_id == proc'[p].router_id
                 snat_agents == {b.l3_agent_id : b \in SnatRows(router_id)}
             IN  IF IsDistributed(get_router(router_id))
                 THEN /\ csnat' \in {csnat, csnat \ SnatRows(router_id)}
                      /\ l3bindings' \subseteq l3bindings
                      /\ \A b \in l3bindings \ l3bindings' :
                            /\ b.router_id = router_id
                            /\ b.l3_agent_id \in snat_agents
                            /\ b.l3_agent_id = proc'[p].binding.l3_agent_id
                            /\ csnat' = csnat \ SnatRows(router_id)
                 ELSE /\ csnat' = csnat
                      /\ l3bindings' =
                            {b \in l3bindings :
                                ~(/\ b.router_id = router_id
                                  /\ b.l3_agent_id \in hosting_agents_ids(router_id))}]_vars

\* Reached: _unschedule_router on the distributed router R1 released the SNAT
\* binding to A1 with A1's host binding, and R1's binding to the compute-node
\* agent A3 is still there.
C19_Witness ==
    /\ Completed(1, "_unschedule_router")
    /\ proc[1].router_id = "R1"
    /\ proc[1].binding = BindingRow("R1", "A1")
    /\ csnat = {}
    /\ l3bindings = {BindingRow("R1", "A3")}

\* The SNAT bindings of a router, of one agent when an agent id is given.
SnatRowsOf(router_id, agent_id) ==
    {b \in SnatRows(router_id) :
        agent_id # NoneVal => b.l3_agent_id = agent_id}

\* C20: unbind_snat(R, agent_id) deletes the SNAT binding of R, only the one
\* to agent_id when agent_id is given, and returns the data of a deleted
\* binding; when no row matches it returns None and leaves the bindings as
\* they are, a binding of R to another agent included.  It raises nothing
\* and never touches a RouterL3AgentBinding.
C20_UnbindSnatDeletesMatchingOrNothing ==
    [][\A p \in Procs :
          (proc[p].op = "idle" /\ proc'[p].op = "unbind_snat")
          => LET matching == SnatRowsOf(proc'[p].router_id, proc'[p].agent_id)
             IN  /\ proc'[p].pc = "done"
                 /\ proc'[p].raised = NoExc
                 /\ l3bindings' = l3bindings
                 /\ csnat' = csnat \ matching
                 /\ IF matching = {}
                    THEN /\ proc'[p].result = NoneVal
                         /\ proc'[p].binding = NoBinding
                    ELSE /\ proc'[p].result = "binding"
                         /\ proc'[p].binding \in matching]_vars

\* Reached: unbind_snat(R1, A2) returned None and R1's SNAT binding to A1 is
\* still there.
C20_Witness ==
    /\ Completed(1, "unbind_snat")
    /\ proc[1].router_id = "R1"
    /\ proc[1].agent_id = "A2"
    /\ proc[1].result = NoneVal
    /\ csnat = {BindingRow("R1", "A1")}

\* The step of thread p in which unbind_router_servicenode runs for the SNAT
\* binding remove_router_from_l3_agent has just unbound, and commits.
UnbindRouterServicenodeRuns(p) ==
    /\ proc[p].op = "remove_router_from_l3_agent"
    /\ proc[p].pc = "unbind_router_servicenode"
    /\ proc'[p].pc = "done"
    /\ proc'[p].raised = NoExc

\* The notification that tells the agent on `host` that the router was removed.
RemovalNotice(router_id, host) ==
    <<"router_removed_from_agent", router_id, host>>

\* C21: unbind_router_servicenode(R, binding) keeps the RouterL3AgentBinding
\* of R to the binding's agent and sends no removal notification if a DVR
\* serviced port is bound to that agent's host on one of R's attached subnets;
\* otherwise it deletes exactly that row and tells the agent on that host that
\* the router was removed.
C21_UnbindRouterServicenodeKeepsIffPortOnHost ==
    [][\A p \in Procs :
          UnbindRouterServicenodeRuns(p) =>
             LET router_id == proc[p].router_id
                 agent_id == proc[p].binding.l3_agent_id
                 host == AgentById(agent_id).host
                 row == BindingRow(router_id, agent_id)
                 notice == RemovalNotice(router_id, host)
             IN  IF ServicedPortOnHost(router_id, host)
                 THEN /\ l3bindings' = l3bindings
                      /\ \A i \in 1..Len(proc'[p].sent) : proc'[p].sent[i] # notice
                 ELSE /\ l3bindings' = l3bindings \ {row}
                      /\ \E i \in 1..Len(proc'[p].sent) : proc'[p].sent[i] = notice]_vars

\* C22: when remove_router_from_l3_agent has unbound the SNAT binding of a
\* distributed router with a gateway to the agent and unbind_router_servicenode
\* has run, then either the RouterL3AgentBinding was removed, and the call has
\* sent exactly the one removal notification for the agent's host and no
\* routers_updated, or it was kept, and the call has sent exactly one
\* routers_updated for the router with schedule_routers=False and no removal
\* notification; the inherited removal, which reschedules, has not run.
C22_RemoveNotifiesRemovedXorUpdated ==
    [][\A p \in Procs :
          UnbindRouterServicenodeRuns(p) =>
             LET router_id == proc[p].router_id
                 agent_id == proc[p].agent_id
                 row == BindingRow(router_id, agent_id)
                 removed == row \in l3bindings /\ row \notin l3bindings'
                 reported_kept == port_found(router_id, AgentById(agent_id).host)
             IN  /\ IsDistributed(get_router(router_id))
                 /\ HasGateway(get_router(router_id))
                 /\ proc[p].binding = row
                 /\ row \notin csnat
                 /\ csnat' = csnat
                 /\ proc[p].sent = <<>>
                 /\ IF reported_kept
                    THEN /\ l3bindings' = l3bindings
                         /\ proc'[p].sent =
                               << <<"routers_updated", router_id,
                                    "schedule_routers=False">> >>
                    ELSE /\ l3bindings' = l3bindings \ {row}
                         /\ proc'[p].sent =
                               << RemovalNotice(router_id,
                                                AgentById(agent_id).host) >>]_vars

\* Reached: remove_router_from_l3_agent(A1, R1) unbound the SNAT binding and
\* kept RouterL3AgentBinding(R1, A1) because of a serviced port on H1; it sent
\* routers_updated and no removal notification.
C22_Witness ==
    /\ Completed(1, "remove_router_from_l3_agent")
    /\ proc[1].binding = BindingRow("R1", "A1")
    /\ BindingRow("R1", "A1") \in l3bindings
    /\ csnat = {}
    /\ proc[1].sent = << <<"routers_updated", "R1", "schedule_routers=False">> >>

\* C23: remove_router_from_l3_agent(agent, R) runs the inherited removal
\* (the RouterL3AgentBinding of R to the agent is deleted and the agent is
\* told) exactly when no SNAT binding of R to that agent was found and
\* deleted: always for a router that is not distributed or has no gateway,
\* and for a distributed router with a gateway only when unbind_snat for that
\* agent matches nothing.  When a SNAT binding was unbound the call goes on
\* to unbind_router_servicenode instead, and that step ends with one
\* notification, never with the inherited removal on top.
C23_GenericRemovalIffNoSnatUnbound ==
    [][\A p \in Procs :
          /\ (proc[p].op = "idle" /\ proc'[p].op = "remove_router_from_l3_agent")
             => LET router_id == proc'[p].router_id
                    agent_id == proc'[p].agent_id
                    router == get_router(router_id)
                    matching == SnatRowsOf(router_id, agent_id)
                    unbound == /\ IsDistributed(router)
                               /\ HasGateway(router)
                               /\ matching # {}
                IN  IF unbound
                    THEN /\ csnat' = csnat \ matching
                         /\ l3bindings' = l3bindings
                         /\ proc'[p].pc = "unbind_router_servicenode"
                         /\ proc'[p].binding \in matching
                         /\ proc'[p].sent = <<>>
                    ELSE /\ csnat' = csnat
                         /\ l3bindings' =
                               l3bindings \ {BindingRow(router_id, agent_id)}
                         /\ proc'[p].pc = "done"
                         /\ proc'[p].binding = NoBinding
                         /\ proc'[p].sent =
                               << RemovalNotice(router_id,
                                                AgentById(agent_id).host) >>
          /\ UnbindRouterServicenodeRuns(p)
             => /\ proc[p].binding # NoBinding
                /\ Len(proc'[p].sent) = 1
                /\ port_found(proc[p].router_id, AgentById(proc[p].agent_id).host)
                      => l3bindings' = l3bindings]_vars

\* Reached: remove_router_from_l3_agent(A2, R1) found no SNAT binding of the
\* distributed router R1 to A2 (it is bound to A1), so the inherited removal
\* ran: R1's binding to A2 is gone, A2's host was told, the SNAT binding to A1
\* is untouched.
C23_Witness ==
    /\ Completed(1, "remove_router_from_l3_agent")
    /\ proc[1].router_id = "R1"
    /\ proc[1].agent_id = "A2"
    /\ proc[1].binding = NoBinding
    /\ csnat = {BindingRow("R1", "A1")}
    /\ BindingRow("R1", "A2") \notin l3bindings
    /\ proc[1].sent = << RemovalNotice("R1", "H2") >>

\* C29: the step of schedule_snat_router that picks an agent and inserts the
\* SNAT binding never inserts a RouterL3AgentBinding; when the insert did not
\* go through, the call is over, with no agent chosen and nothing returned,
\* and both tables are as they were; the duplicate entry never reaches the
\* caller; and when every candidate already holds a SNAT binding of the
\* router, so that the insert can only be a duplicate, the call returns None
\* without an exception.
C29_DuplicateSnatInsertReturnsNone ==
    [][\A p \in Procs :
          (proc[p].op = "idle" /\ proc'[p].op = "schedule_snat_router")
          => LET router_id == proc'[p].router_id
                 candidates == CandidateIds(get_router(router_id))
                 bound == {b.l3_agent_id : b \in SnatRows(router_id)}
             IN  /\ l3bindings' = l3bindings
                 /\ proc'[p].raised.exc # "DBDuplicateEntry"
                 /\ csnat' = csnat
                       => /\ proc'[p].pc = "done"
                          /\ proc'[p].chosen = NoneVal
                          /\ proc'[p].result = NoneVal
                 /\ (candidates # {} /\ candidates \subseteq bound)
                       => /\ csnat' = csnat
                          /\ proc'[p].pc = "done"
                          /\ proc'[p].raised = NoExc
                          /\ proc'[p].result = NoneVal]_vars

\* Reached: schedule_snat_router(R1) returned None although R1 has candidates:
\* each of them already holds a SNAT binding of R1, and A2 has no
\* RouterL3AgentBinding of R1.
C29_Witness ==
    /\ Completed(1, "schedule_snat_router")
    /\ proc[1].router_id = "R1"
    /\ proc[1].result = NoneVal
    /\ CandidateIds(get_router("R1")) = {"A1", "A2"}
    /\ csnat = {BindingRow("R1", "A1"), BindingRow("R1", "A2")}
    /\ BindingRow("R1", "A2") \notin l3bindings

\* C30: create_router_to_agent_binding(agent, router) for a distributed
\* router with a gateway (and a router scheduler) first inserts the
\* CentralizedSnatL3AgentBinding(router, agent), touching no
\* RouterL3AgentBinding in that step, and then inserts the
\* RouterL3AgentBinding(router, agent) unless it exists; a call that returns
\* leaves both rows.  For every other router the call is the inherited bind
\* alone: it ends in its first step, adds at most that RouterL3AgentBinding
\* and creates no CentralizedSnatL3AgentBinding.
C30_ManualBindSnatOrGeneric ==
    [][\A p \in Procs :
          (proc'[p].op = "create_router_to_agent_binding" /\ proc'[p] # proc[p])
          => LET router_id == proc'[p].router_id
                 agent_id == proc'[p].agent_id
                 router == get_router(router_id)
                 row == BindingRow(router_id, agent_id)
                 starts == proc[p].op = "idle"
                 returns == proc'[p].pc = "done" /\ proc'[p].raised = NoExc
             IN  IF IsDistributed(router) /\ HasGateway(router) /\ router_scheduler
                 THEN /\ starts =>
                            /\ l3bindings' = l3bindings
                            /\ proc'[p].pc # "done"
                                  => (row \notin csnat /\ csnat' = csnat \cup {row})
                            /\ proc'[p].pc = "done"
                                  => (csnat' = csnat /\ proc'[p].raised # NoExc)
                      /\ ~starts =>
                            /\ csnat' = csnat
                            /\ l3bindings' \in {l3bindings, l3bindings \cup {row}}
                            /\ row \in l3bindings => l3bindings' = l3bindings
                      /\ returns => (row \in csnat' /\ row \in l3bindings')
                 ELSE /\ starts
                      /\ proc'[p].pc = "done"
                      /\ csnat' = csnat
                      /\ l3bindings' \in {l3bindings, l3bindings \cup {row}}
                      /\ returns => row \in l3bindings']_vars

\* Reached: create_router_to_agent_binding(A2, R1) has returned for the
\* distributed gateway router R1, which had no binding: exactly the SNAT
\* binding and the RouterL3AgentBinding of R1 to A2 exist.
C30_Witness ==
    /\ Completed(1, "create_router_to_agent_binding")
    /\ proc[1].router_id = "R1"
    /\ proc[1].agent_id = "A2"
    /\ csnat = {BindingRow("R1", "A2")}
    /\ l3bindings = {BindingRow("R1", "A2")}

\* Thread p takes a step inside the callback `name`.
InHandler(p, name) ==
    /\ Handler(p).name = name
    /\ Handler(p).pc # "done"
    /\ proc'[p] # proc[p]

\* The callback `name` of thread p returns in this step.
HandlerReturns(p, name) ==
    /\ InHandler(p, name)
    /\ HandlerOf(proc'[p]).pc = "done"

\* The three binding tables are left as they are.
BindingsUnchanged ==
    /\ csnat' = csnat
    /\ l3bindings' = l3bindings
    /\ dvr_bindings' = dvr_bindings

\* C24: the port created callback for a port whose device owner is DVR
\* serviced calls dvr_handle_new_service_port for the port and, when that has
\* returned, adds the ARP entry of the port, and makes no other call; for a
\* missing port or a device owner that is not DVR serviced it makes no call
\* and no step of it changes a binding.
C24_NewPortEventBindsThenAddsArp ==
    [][\A p \in Procs :
          InHandler(p, "_notify_l3_agent_new_port") =>
             LET h == Handler(p)
                 serviced == /\ h.port # {}
                             /\ is_dvr_serviced(The(h.port).device_owner)
             IN  IF serviced
                 THEN HandlerReturns(p, "_notify_l3_agent_new_port")
                         => /\ proc[p].op = "dvr_handle_new_service_port"
                            /\ proc[p].pc = "done"
                            /\ proc[p].port_id = The(h.port).id
                            /\ HandlerOf(proc'[p]).calls =
                                  << <<"dvr_handle_new_service_port",
                                       The(h.port).id>>,
                                     <<"update_arp_entry_for_dvr_service_port",
                                       The(h.port).id, "add">> >>
                 ELSE /\ HandlerReturns(p, "_notify_l3_agent_new_port")
                      /\ proc[p].op = "idle"
                      /\ HandlerOf(proc'[p]).calls = <<>>
                      /\ BindingsUnchanged]_vars

\* Reached: the port created callback has returned for the VM port P1 on H3;
\* it called dvr_handle_new_service_port, which bound R1 to the agent A3 of
\* H3, and then added the ARP entry.
C24_Witness ==
    /\ Completed(1, "_notify_l3_agent_new_port")
    /\ Handler(1).port =
          {Port("P1", DEVICE_OWNER_COMPUTE, "vm1", "H3", <<"S1">>)}
    /\ Handler(1).calls =
          << <<"dvr_handle_new_service_port", "P1">>,
             <<"update_arp_entry_for_dvr_service_port", "P1", "add">> >>
    /\ l3bindings = {BindingRow("R1", "A3")}

\* The call of remove_router_from_l3_agent the port deleted callback makes
\* for a removal record.
RemoveCall(router) ==
    <<"remove_router_from_l3_agent", router.agent_id, router.router_id,
      "elevated">>

\* C25: the port deleted callback first deletes the ARP entry of the port,
\* changing no binding; with no removal record it then returns; else it
\* calls remove_router_from_l3_agent, with an elevated context, for the first
\* record left, with that record's agent id and router id, takes the record
\* off when the call has returned, and returns after the last one, so that
\* it has made one call per record, in order, after the ARP deletion.
C25_PortDeleteEventClearsArpThenRemoves ==
    [][\A p \in Procs :
          InHandler(p, "_notify_port_delete") =>
             LET h == Handler(p)
                 g == HandlerOf(proc'[p])
                 arp_del == <<"update_arp_entry_for_dvr_service_port",
                              The(h.port).id, "del">>
             IN  CASE h.pc = "start" ->
                        /\ h.calls = <<>>
                        /\ g.calls = <<arp_del>>
                        /\ g.removed_routers = h.removed_routers
                        /\ BindingsUnchanged
                        /\ g.pc = IF h.removed_routers = <<>>
                                  THEN "done"
                                  ELSE "remove_router_from_l3_agent"
                  [] proc[p].op = "idle" ->
                        /\ h.removed_routers # <<>>
                        /\ proc'[p].op = "remove_router_from_l3_agent"
                        /\ proc'[p].agent_id = Head(h.removed_routers).agent_id
                        /\ proc'[p].router_id = Head(h.removed_routers).router_id
                        /\ g = h
                  [] proc[p].pc = "done" ->
                        /\ g.calls = Append(h.calls,
                                            RemoveCall(Head(h.removed_routers)))
                        /\ g.removed_routers = Tail(h.removed_routers)
                        /\ g.calls[1] = arp_del
                        /\ BindingsUnchanged
                        /\ g.pc = IF proc[p].raised # NoExc
                                        \/ g.removed_routers = <<>>
                                  THEN "done"
                                  ELSE "remove_router_from_l3_agent"
                  [] OTHER ->
                        /\ proc[p].op = "remove_router_from_l3_agent"
                        /\ g = h]_vars

\* Reached: the port deleted callback has returned for the VM port P1 with
\* the removal records of R1 and R2 on H3: it deleted the ARP entry and then
\* called remove_router_from_l3_agent(A3, R1) and (A3, R2), and neither
\* router is bound to A3 any more.
C25_Witness ==
    /\ Completed(1, "_notify_port_delete")
    /\ Handler(1).calls =
          << <<"update_arp_entry_for_dvr_service_port", "P1", "del">>,
             <<"remove_router_from_l3_agent", "A3", "R1", "elevated">>,
             <<"remove_router_from_l3_agent", "A3", "R2", "elevated">> >>
    /\ Handler(1).removed_routers = <<>>
    /\ l3bindings = {}
    /\ \A q \in ports : q.id # "P1"

\* The calls of a callback that add an ARP entry or handle a new service
\* port.
BindingCalls(calls) ==
    {i \in 1..Len(calls) :
        \/ calls[i][1] = "dvr_handle_new_service_port"
        \/ /\ calls[i][1] = "update_arp_entry_for_dvr_service_port"
           /\ calls[i][3] = "add"}

\* The port of an update stopped being DVR serviced.
NoLongerServiced(original_port, new_port) ==
    /\ is_dvr_serviced(original_port.device_owner)
    /\ ~is_dvr_serviced(new_port.device_owner)

\* The port of an update had a host and has another one, or none, now.
Moved(original_port, new_port) ==
    /\ original_port.host # ""
    /\ original_port.host # new_port.host

\* C26: when the port of a port updated event stopped being DVR serviced, or
\* had a host that differs from its new host, the callback first calls
\* dvr_deletens_if_no_port with the id and the host of the original port;
\* when that returns removal records it runs the port deleted callback on
\* them: the ARP entry of the original port is deleted and
\* remove_router_from_l3_agent is called, elevated, for each record in turn;
\* and when the new device owner is not DVR serviced it then returns: in
\* such an update it never calls dvr_handle_new_service_port and never adds
\* an ARP entry.
C26_PortUpdateTearsDownOriginalHost ==
    [][\A p \in Procs :
          (/\ InHandler(p, "_notify_l3_agent_port_update")
           /\ Handler(p).port # {}
           /\ Handler(p).original_port # {})
          => LET h == Handler(p)
                 g == HandlerOf(proc'[p])
                 new_port == The(h.port)
                 original_port == The(h.original_port)
                 teardown == \/ NoLongerServiced(original_port, new_port)
                             \/ Moved(original_port, new_port)
                 deletens == <<"dvr_deletens_if_no_port",
                               original_port.id, original_port.host>>
                 arp_del == <<"update_arp_entry_for_dvr_service_port",
                              original_port.id, "del">>
                 records == proc[p].removed_router_info
             IN  /\ h.pc = "start" =>
                       /\ h.calls = <<>>
                       /\ teardown <=> g.pc = "dvr_deletens_if_no_port"
                       /\ teardown => g.calls = <<>>
                 /\ (h.pc = "dvr_deletens_if_no_port" /\ proc[p].op = "idle") =>
                       /\ proc'[p].op = "dvr_deletens_if_no_port"
                       /\ proc'[p].port_id = original_port.id
                       /\ original_port.host # ""
                             => proc'[p].host = original_port.host
                       /\ csnat' = csnat /\ l3bindings' = l3bindings
                 /\ (h.pc = "dvr_deletens_if_no_port" /\ proc[p].pc = "done"
                     /\ proc[p].raised = NoExc) =>
                       /\ g.removed_routers = records
                       /\ g.calls[1] = deletens
                       /\ IF records = <<>>
                          THEN \A i \in 1..Len(g.calls) : g.calls[i] # arp_del
                          ELSE g.calls = <<deletens, arp_del>>
                       /\ records # <<>> => g.pc = "remove_router_from_l3_agent"
                 /\ (h.pc = "remove_router_from_l3_agent" /\ proc[p].op = "idle") =>
                       /\ proc'[p].op = "remove_router_from_l3_agent"
                       /\ proc'[p].agent_id = Head(h.removed_routers).agent_id
                       /\ proc'[p].router_id = Head(h.removed_routers).router_id
                 /\ (h.pc = "remove_router_from_l3_agent" /\ proc[p].pc = "done") =>
                       /\ SubSeq(g.calls, 1, Len(h.calls) + 1)
                             = Append(h.calls,
                                      RemoveCall(Head(h.removed_routers)))
                       /\ g.removed_routers = Tail(h.removed_routers)
                       /\ (proc[p].raised = NoExc /\ g.removed_routers # <<>>)
                             => g.pc = "remove_router_from_l3_agent"
                 /\ (teardown /\ ~is_dvr_serviced(new_port.device_owner)) =>
                       /\ proc'[p].op # "dvr_handle_new_service_port"
                       /\ g.pc # "dvr_handle_new_service_port"
                       /\ BindingCalls(g.calls) = {}
                       /\ (g.pc = "done" /\ proc'[p].raised = NoExc) =>
                             /\ g.removed_routers = <<>>
                             /\ g.calls[1] = deletens]_vars

\* Reached: the port updated callback has returned for P1, a VM port on H3
\* that became a port that is not DVR serviced: it called
\* dvr_deletens_if_no_port(P1, H3), deleted the ARP entry, had R1 removed from
\* the agent A3 and made no further call.
C26_Witness ==
    /\ Completed(1, "_notify_l3_agent_port_update")
    /\ Handler(1).original_port =
          {Port("P1", DEVICE_OWNER_COMPUTE, "vm1", "H3", <<"S1">>)}
    /\ Handler(1).port =
          {Port("P1", DEVICE_OWNER_AGENT_GW, "vm1", "H3", <<"S1">>)}
    /\ Handler(1).mac_address_updated
    /\ Handler(1).calls =
          << <<"dvr_deletens_if_no_port", "P1", "H3">>,
             <<"update_arp_entry_for_dvr_service_port", "P1", "del">>,
             <<"remove_router_from_l3_agent", "A3", "R1", "elevated">> >>
    /\ BindingRow("R1", "A3") \notin l3bindings

\* C27: when the port of a port updated event has a host that differs from
\* the original one and a DVR serviced device owner, the callback calls
\* dvr_handle_new_service_port for the new port and, when that has returned,
\* adds the port's ARP entry, as its last two calls; for no other update does
\* it call dvr_handle_new_service_port.  The call begins only when the
\* removals of the original host are over: for a port that had a host,
\* dvr_deletens_if_no_port has been called and no removal record is left,
\* and from then on the callback removes no binding, so that every router
\* binding it creates on the new host comes after the teardown.  (An
\* exception of a teardown call ends the callback; the claim is about
\* callbacks whose calls return.)
C27_PortUpdateBindsNewHostAfterTeardown ==
    [][\A p \in Procs :
          (/\ InHandler(p, "_notify_l3_agent_port_update")
           /\ Handler(p).port # {}
           /\ Handler(p).original_port # {})
          => LET h == Handler(p)
                 g == HandlerOf(proc'[p])
                 new_port == The(h.port)
                 original_port == The(h.original_port)
                 rebind == /\ new_port.host # ""
                           /\ new_port.host # original_port.host
                           /\ is_dvr_serviced(new_port.device_owner)
                 deletens == <<"dvr_deletens_if_no_port",
                               original_port.id, original_port.host>>
                 handle == <<"dvr_handle_new_service_port", new_port.id>>
                 arp_add == <<"update_arp_entry_for_dvr_service_port",
                              new_port.id, "add">>
                 n == Len(g.calls)
             IN  /\ proc'[p].op = "dvr_handle_new_service_port" =>
                       /\ rebind
                       /\ proc'[p].port_id = new_port.id
                       /\ proc'[p].host = new_port.host
                       /\ h.removed_routers = <<>>
                       /\ original_port.host # "" => h.calls[1] = deletens
                       /\ csnat' = csnat
                       /\ dvr_bindings' = dvr_bindings
                       /\ l3bindings \subseteq l3bindings'
                 /\ l3bindings' \ l3bindings # {} =>
                       /\ proc[p].op = "dvr_handle_new_service_port"
                       /\ l3bindings' \ l3bindings =
                             {BindingRow(proc[p].router_id, proc[p].agent_id)}
                       /\ AgentById(proc[p].agent_id).host = new_port.host
                 /\ (g.pc = "done" /\ proc'[p].raised = NoExc) =>
                       IF rebind
                       THEN /\ proc[p].op = "dvr_handle_new_service_port"
                            /\ proc[p].pc = "done"
                            /\ n >= 2
                            /\ g.calls[n - 1] = handle
                            /\ g.calls[n] = arp_add
                            /\ \A i \in 1..(n - 2) : g.calls[i] \notin {handle, arp_add}
                       ELSE \A i \in 1..n : g.calls[i] # handle]_vars

\* Reached: the port updated callback has returned for the VM port P1 that
\* moved from H3 to H1: it tore down H3 (dvr_deletens_if_no_port, ARP
\* deletion, R1 removed from A3), then handled the port on H1, which bound R1
\* to A1, and added the ARP entry.
C27_Witness ==
    /\ Completed(1, "_notify_l3_agent_port_update")
    /\ Handler(1).original_port =
          {Port("P1", DEVICE_OWNER_COMPUTE, "vm1", "H3", <<"S1">>)}
    /\ Handler(1).port =
          {Port("P1", DEVICE_OWNER_COMPUTE, "vm1", "H1", <<"S1">>)}
    /\ Handler(1).calls =
          << <<"dvr_deletens_if_no_port", "P1", "H3">>,
             <<"update_arp_entry_for_dvr_service_port", "P1", "del">>,
             <<"remove_router_from_l3_agent", "A3", "R1", "elevated">>,
             <<"dvr_handle_new_service_port", "P1">>,
             <<"update_arp_entry_for_dvr_service_port", "P1", "add">> >>
    /\ l3bindings = {BindingRow("R1", "A1")}

\* C28: a port updated event with the MAC address changed, for a port that
\* keeps its host and was and is DVR serviced, makes the callback return in
\* one step after exactly one call, the addition of the port's ARP entry: no
\* binding is created or removed, and neither dvr_handle_new_service_port,
\* dvr_deletens_if_no_port nor remove_router_from_l3_agent is called.
C28_MacOnlyUpdateAddsArpOnly ==
    [][\A p \in Procs :
          (/\ InHandler(p, "_notify_l3_agent_port_update")
           /\ Handler(p).port # {}
           /\ Handler(p).original_port # {}
           /\ Handler(p).mac_address_updated
           /\ The(Handler(p).port).host
                 = The(Handler(p).original_port).host
           /\ is_dvr_serviced(The(Handler(p).original_port).device_owner)
           /\ is_dvr_serviced(The(Handler(p).port).device_owner))
          => /\ Handler(p).pc = "start"
             /\ proc[p].op = "idle"
             /\ proc'[p].op = "_notify_l3_agent_port_update"
             /\ proc'[p].pc = "done"
             /\ proc'[p].raised = NoExc
             /\ HandlerOf(proc'[p]).calls =
                   << <<"update_arp_entry_for_dvr_service_port",
                        The(Handler(p).port).id, "add">> >>
             /\ BindingsUnchanged]_vars

\* Reached: the port updated callback has returned for the VM port P1 on H3
\* of which only the MAC address changed: its one call added the ARP entry,
\* and R1 is bound to A3 as before.
C28_Witness ==
    /\ Completed(1, "_notify_l3_agent_port_update")
    /\ Handler(1).mac_address_updated
    /\ Handler(1).original_port =
          {Port("P1", DEVICE_OWNER_COMPUTE, "vm1", "H3", <<"S1">>)}
    /\ Handler(1).port = Handler(1).original_port
    /\ Handler(1).calls =
          << <<"update_arp_entry_for_dvr_service_port", "P1", "add">> >>
    /\ l3bindings = {BindingRow("R1", "A3")}

\* C31: a dvr_handle_new_service_port call for a port whose host has no L3
\* agent returns in its first step: it raises nothing, reaches no
\* schedule_router, leaves every table as it was and sends no notification.
C31_NoAgentOnHostIsNoOp ==
    [][\A p \in Procs :
          (/\ proc'[p].op = "dvr_handle_new_service_port"
           /\ proc'[p] # proc[p]
           /\ AgentIdsOnHost(proc'[p].host) = {})
          => /\ proc[p].op = "idle"
             /\ proc'[p].pc = "done"
             /\ proc'[p].raised = NoExc
             /\ proc'[p].sent = <<>>
             /\ proc'[p].router_ids = {}
             /\ l3bindings' = l3bindings
             /\ csnat' = csnat
             /\ dvr_bindings' = dvr_bindings
             /\ ports' = ports]_vars

\* Reached: dvr_handle_new_service_port has returned for the VM port P1 on
\* H4, a host without an L3 agent, on the subnet S1 of R1; nothing is bound
\* and nothing was sent.
C31_Witness ==
    /\ Completed(1, "dvr_handle_new_service_port")
    /\ proc[1].port_id = "P1"
    /\ proc[1].host = "H4"
    /\ "R1" \in RoutersSharingSubnet(get_port("P1").fixed_ips)
    /\ AgentIdsOnHost("H4") = {}
    /\ proc[1].sent = <<>>
    /\ l3bindings = {}

\* C32: in a dvr_handle_new_service_port call that finds an agent on the
\* port's host, a router already bound to that agent is never handed to
\* schedule_router, the only rows the call adds are those of routers of the
\* port that were not bound to the agent, so a call that finds all of them
\* bound (a repeated call for the same port) adds none; and the call ends
\* with exactly one routers_updated_on_host notification, for the port's host
\* and with every router id get_dvr_routers_by_portid returns for the port,
\* bound before the call or by it.
C32_NewServicePortIsIdempotent ==
    [][\A p \in Procs :
          (/\ proc'[p].op = "dvr_handle_new_service_port"
           /\ proc'[p] # proc[p]
           /\ AgentIdsOnHost(proc'[p].host) # {})
          => LET agent_id == proc'[p].agent_id
                 router_ids == get_dvr_routers_by_portid(proc'[p].port_id, {})
                 unbound == {router_id \in router_ids :
                                BindingRow(router_id, agent_id) \notin l3bindings}
             IN  /\ agent_id \in AgentIdsOnHost(proc'[p].host)
                 /\ proc'[p].pc = "schedule_router"
                       => proc'[p].router_id \in unbound
                 /\ l3bindings \subseteq l3bindings'
                 /\ l3bindings' \ l3bindings \subseteq
                       {BindingRow(router_id, agent_id) : router_id \in unbound}
                 /\ unbound = {} => l3bindings' = l3bindings
                 /\ proc'[p].sent =
                       IF proc'[p].pc = "done"
                       THEN << <<"routers_updated_on_host", router_ids,
                                 proc'[p].host>> >>
                       ELSE <<>>]_vars

\* Reached: a dvr_handle_new_service_port call for P1 on H3, on the subnets
\* of R1 and R2, has found the agent A3 and starts its loop with both routers
\* bound to A3 by an earlier call.
C32_Witness ==
    /\ proc[1].op = "dvr_handle_new_service_port"
    /\ proc[1].pc = "for_router_id"
    /\ proc[1].port_id = "P1"
    /\ proc[1].agent_id = "A3"
    /\ proc[1].router_ids = {"R1", "R2"}
    /\ proc[1].todo = {"R1", "R2"}
    /\ l3bindings = {BindingRow("R1", "A3"), BindingRow("R2", "A3")}

\* C33: for every router whose subnets a dvr_deletens_if_no_port call with a
\* resolved host asks for, get_subnet_ids_on_router returns every subnet the
\* router is attached to, the subnet of every fixed IP of every port whose
\* device_id is the router (a port without fixed IPs adds none), so the call
\* continues past a router exactly when another DVR serviced port is bound
\* to the host on one of those subnets.
C33_SubnetIdsOnRouterAreAllAttachedSubnets ==
    [][\A p \in Procs :
          (/\ proc[p].op = "idle"
           /\ proc'[p].op = "dvr_deletens_if_no_port"
           /\ Truthy(proc'[p].host))
          => \A router_id \in proc'[p].router_ids :
                /\ get_subnet_ids_on_router(router_id)
                      = AttachedSubnets(router_id)
                /\ check_dvr_serviceable_ports_on_host(
                      proc'[p].host, get_subnet_ids_on_router(router_id),
                      proc'[p].port_id)
                   <=> OtherServicedPort(router_id, proc'[p].host,
                                         proc'[p].port_id)]_vars

\* C34: in every state in which no thread is inside an operation, every
\* CentralizedSnatL3AgentBinding(R, A) has its companion
\* RouterL3AgentBinding(R, A).
C34_SnatBindingHasCompanion ==
    (\A p \in Procs : proc[p].op = "idle" /\ proc[p].handler = <<>>)
    => \A b \in csnat : BindingRow(b.router_id, b.l3_agent_id) \in l3bindings

\* Thread p is on the port-removal path: in delete_port, which asks
\* dvr_deletens_if_no_port for the removal records and deletes the port, or
\* in the port deleted callback that is called with them.
OnPortRemovalPath(p) ==
    Handler(p).name \in {"delete_port", "_notify_port_delete"}

\* C35: no step of the port-removal path deletes a
\* CentralizedSnatL3AgentBinding; in particular the SNAT binding of a router
\* that has its external gateway is still there when the path has removed
\* the last serviceable port on the host of the router's SNAT agent.
C35_PortRemovalKeepsSnatBinding ==
    [][\A p \in Procs : OnPortRemovalPath(p) => csnat \subseteq csnat']_vars

\* Both threads have come to the end of a port-removal flow for two ports
\* that were bound to `host`, each on a subnet of router_id, and no DVR
\* serviced port is left on the host on the router's attached subnets.
LastTwoPortsRemoved(router_id, host) ==
    /\ \A p \in RaceProcs :
          /\ Completed(p, "_notify_port_delete")
          /\ The(Handler(p).port).host = host
          /\ router_id \in RoutersSharingSubnet(The(Handler(p).port).fixed_ips)
    /\ ~ServicedPortOnHost(router_id, host)

\* C36: when two concurrent port-removal flows have removed the last two
\* serviceable ports on a host within a router's subnets, at least one of
\* them got a removal record of the router on the host and called
\* remove_router_from_l3_agent for it, the router is no longer bound to the
\* host's agent, and the bindings for the host of the router's DVR interface
\* ports no longer name the router.
C36_ConcurrentRemovalsTearDown ==
    \A router_id \in RouterIds, host \in {a.host : a \in agents} :
       LastTwoPortsRemoved(router_id, host)
       => /\ \E p \in RaceProcs, agent_id \in AgentIdsOnHost(host) :
                RemoveCall([router_id |-> router_id, agent_id |-> agent_id])
                   \in Range(Handler(p).calls)
          /\ \A agent_id \in AgentIdsOnHost(host) :
                BindingRow(router_id, agent_id) \notin l3bindings
          /\ \A b \in dvr_bindings :
                (b.host = host /\ b.port_id \in int_ports(router_id))
                => b.router_id = NoneVal

\* Both threads have returned from dvr_handle_new_service_port calls for
\* ports on `host`, which has an L3 agent, each port on a subnet of
\* router_id.
BothNewPortCallsDone(router_id, host) ==
    /\ AgentIdsOnHost(host) # {}
    /\ \A p \in RaceProcs :
          /\ Completed(p, "dvr_handle_new_service_port")
          /\ proc[p].host = host
          /\ router_id \in RoutersSharingSubnet(get_port(proc[p].port_id).fixed_ips)

UnbindRouterServicenodeEnds(p) ==
    \/ /\ proc[p].op = "remove_router_from_l3_agent"
       /\ proc[p].pc = "unbind_router_servicenode"
       /\ proc'[p].pc = "done"
    \/ /\ proc[p].op = "idle"
       /\ proc'[p].op = "unbind_snat_servicenode"
       /\ proc'[p].binding # NoBinding

\* C38: when unbind_router_servicenode has sent router_removed_from_agent
\* for a router and a host, the deletion of the RouterL3AgentBinding of the
\* router to the binding's agent is committed: the row is gone and the call
\* has not failed; a call whose transaction was rolled back has sent no
\* removal notification.
C38_RemovalNoticeOnlyAfterCommit ==
    [][\A p \in Procs :
          UnbindRouterServicenodeEnds(p)
          => LET router_id == proc'[p].router_id
                 binding == proc'[p].binding
                 notice == RemovalNotice(router_id,
                                         AgentById(binding.l3_agent_id).host)
             IN  notice \in Range(proc'[p].sent)
                 => /\ proc'[p].raised = NoExc
                    /\ BindingRow(router_id, binding.l3_agent_id)
                          \notin l3bindings']_vars

\* The callback `name` of thread p has come to its end in this step without
\* an exception.
CallbackEnds(p, name) ==
    /\ proc'[p] # proc[p]
    /\ HandlerOf(proc'[p]).name = name
    /\ HandlerOf(proc'[p]).pc = "done"
    /\ proc'[p].raised = NoExc

\* The calls the port deleted callback makes for the routers of a port on a
\* host, in any order.
RemoveCallsFor(router_ids, host) ==
    {RemoveCall([router_id |-> router_id, agent_id |-> agent_id]) :
        router_id \in router_ids, agent_id \in AgentIdsOnHost(host)}

\* C39: a round trip of the only serviceable port P on a host H whose agent
\* holds no SNAT binding.  No step changes a SNAT binding.  When the port
\* created callback ends, every router of P's subnets is bound to the agent of
\* H; when the port deleted callback ends, it has called
\* remove_router_from_l3_agent once for each of these routers and that agent,
\* and the RouterL3AgentBindings are those of the start of the round trip,
\* the companions of the SNAT bindings.  The only notifications sent are the
\* routers_updated_on_host for H of the dvr_handle_new_service_port call and
\* then the router_removed_from_agent for H of each removal call, which
\* deletes the router's binding to the agent of H.
C39_PortRoundTripRestoresBindings ==
    [][\A p \in Procs :
          LET h == HandlerOf(proc'[p])
              port == The(h.port)
              touched == RoutersSharingSubnet(port.fixed_ips)
              bound == /\ is_dvr_serviced(port.device_owner)
                       /\ AgentIdsOnHost(port.host) # {}
          IN  /\ csnat' = csnat
              /\ proc'[p].pc # "unbind_router_servicenode"
              /\ CallbackEnds(p, "_notify_l3_agent_new_port") /\ bound
                 => l3bindings' =
                       csnat \cup {BindingRow(router_id, agent_id) :
                                      router_id \in touched,
                                      agent_id \in AgentIdsOnHost(port.host)}
              /\ CallbackEnds(p, "_notify_port_delete")
                 => /\ l3bindings' = csnat
                    /\ bound =>
                          /\ Len(h.calls) = 1 + Cardinality(touched)
                          /\ RemoveCallsFor(touched, port.host)
                                \subseteq Range(h.calls)
              /\ (proc'[p].sent # proc[p].sent /\ proc'[p].sent # <<>>)
                 => \/ /\ h.name = "_notify_l3_agent_new_port"
                       /\ proc'[p].op = "dvr_handle_new_service_port"
                       /\ proc'[p].pc = "done"
                       /\ proc'[p].sent =
                             << <<"routers_updated_on_host", touched,
                                  port.host>> >>
                    \/ /\ h.name = "_notify_port_delete"
                       /\ proc'[p].op = "remove_router_from_l3_agent"
                       /\ proc'[p].pc = "done"
                       /\ LET router == Head(h.removed_routers)
                          IN  /\ router.host = port.host
                              /\ router.router_id \in touched
                              /\ proc'[p].sent =
                                    << RemovalNotice(router.router_id,
                                                     port.host) >>
                              /\ l3bindings' = l3bindings \
                                    {BindingRow(router.router_id,
                                                router.agent_id)}
                              /\ l3bindings' # l3bindings]_vars

\* Reached: the round trip of the VM port P1 on H3, on the subnet S1 of R1,
\* has ended: the port deleted callback deleted the ARP entry and called
\* remove_router_from_l3_agent(A3, R1), P1 is gone, R1 is not bound to A3 and
\* its bindings to the SNAT agent A1 are as they were.
C39_Witness ==
    /\ Completed(1, "_notify_port_delete")
    /\ Handler(1).port = {Port("P1", DEVICE_OWNER_COMPUTE, "vm1", "H3", <<"S1">>)}
    /\ Handler(1).calls =
          << <<"update_arp_entry_for_dvr_service_port", "P1", "del">>,
             RemoveCall([router_id |-> "R1", agent_id |-> "A3"]) >>
    /\ \A q \in ports : q.id # "P1"
    /\ csnat = {BindingRow("R1", "A1")}
    /\ l3bindings = {BindingRow("R1", "A1")}

====
